---- MODULE Spec2Model ----
(***************************************************************************)
(* Basket-RP: the profile and stat-point ledger of the basketball          *)
(* role-play bot.  The state is the sqlite store (player_profiles,         *)
(* action_logs), the wall clock, and the confirmation views that are       *)
(* waiting for a button.  Every command handler is one action: discord.py  *)
(* runs handlers on one asyncio loop and the sqlite calls are synchronous, *)
(* so a handler runs without interruption from its first line to its       *)
(* first await, and every handler does all its store calls before that.    *)
(***************************************************************************)
EXTENDS Integers, Sequences, FiniteSets, TLC

VARIABLES
    db,      \* player_profiles: user_id -> row (to_dict form), for the rows present
    logs,    \* action_logs: the rows in insertion order
    now,     \* the wall clock read by datetime.now()
    views,   \* confirmation views waiting for Confirmer / Annuler / timeout
    last,    \* what the most recent handler did and answered
    env,     \* "nominal": the store calls succeed; "faulty": one may raise
    tasks,   \* the handler invocations in flight: position, command, own copy
    running  \* the task that holds the event loop, 0 when the loop is free

vars == <<db, logs, now, views, last, env, tasks, running>>

-----------------------------------------------------------------------------
(* Bounds of the exploration *)

\* the clock stops here: at most MaxClock state-changing commands in a run
MaxClock == 4

\* the same for the runs in which the database calls can raise
MaxFaultClock == 3

\* at most this many of them are personalisation commands (customize, color,
\* setphysical), which do not touch stats or points
MaxCosmetic == 1

-----------------------------------------------------------------------------
(* config.py *)

max_stat_value == 1000

min_stat_value == 0

base_stat_value == 500

max_points_per_add == 100

embed_color == 16739125

\* the keys of PlayerProfile.stats, in the order __init__ inserts them
STAT_NAMES ==
    << "Force Physique", "Précision", "Manip. Ballon", "Agilité",
       "Détente", "Défense", "Vitesse", "Endurance" >>

StatSet == { STAT_NAMES[i] : i \in DOMAIN STAT_NAMES }

NoBonus == [s \in {} |-> 0]

\* ARCHETYPES[a]["stat_bonuses"], for the archetypes of config.py
ARCHETYPES ==
    ("Meneur" :>
        (("Manip. Ballon" :> 15) @@ ("Agilité" :> 10) @@ ("Vitesse" :> 10) @@
         ("Précision" :> 5) @@ ("Force Physique" :> -10) @@ ("Détente" :> -5))) @@
    ("Arrière" :>
        (("Précision" :> 15) @@ ("Défense" :> 10) @@ ("Vitesse" :> 5) @@
         ("Agilité" :> 5) @@ ("Force Physique" :> -5) @@ ("Détente" :> -5))) @@
    ("Ailier" :>
        (("Agilité" :> 8) @@ ("Précision" :> 7) @@ ("Défense" :> 7) @@
         ("Vitesse" :> 3) @@ ("Force Physique" :> -5))) @@
    ("Ailier Fort" :>
        (("Force Physique" :> 15) @@ ("Détente" :> 10) @@ ("Défense" :> 8) @@
         ("Endurance" :> 2) @@ ("Vitesse" :> -10) @@ ("Agilité" :> -5))) @@
    ("Pivot" :>
        (("Force Physique" :> 20) @@ ("Détente" :> 15) @@ ("Défense" :> 10) @@
         ("Endurance" :> 5) @@ ("Vitesse" :> -15) @@ ("Agilité" :> -10) @@
         ("Précision" :> -5))) @@
    ("Généraliste" :> NoBonus)

\* ROLE_ARCHETYPE_MAPPING: Discord role name -> archetype (the role names are
\* written without their leading emoji)
ROLE_ARCHETYPE_MAPPING ==
    ("r:Meneur" :> "Meneur") @@ ("r:Arrière" :> "Arrière") @@
    ("r:Ailier" :> "Ailier") @@ ("r:Ailier Fort" :> "Ailier Fort") @@
    ("r:Pivot" :> "Pivot") @@ ("r:Flex" :> "Généraliste")

ADMIN_ROLES == {"Modérateur", "Administrateur", "Coach", "Staff"}

\* get_archetype_from_roles: the first role of the list that names an archetype
RECURSIVE get_archetype_from_roles(_)
get_archetype_from_roles(member_roles) ==
    IF member_roles = <<>> THEN "Généraliste"
    ELSE IF Head(member_roles) \in DOMAIN ROLE_ARCHETYPE_MAPPING
         THEN ROLE_ARCHETYPE_MAPPING[Head(member_roles)]
         ELSE get_archetype_from_roles(Tail(member_roles))

-----------------------------------------------------------------------------
(* Text typed by a user is a sequence of characters.  str.upper and        *)
(* str.lower map the letters and leave every other character alone.        *)

UPPERS ==
    << "A", "B", "C", "D", "E", "F", "G", "H", "I", "J", "K", "L", "M", "N",
       "O", "P", "Q", "R", "S", "T", "U", "V", "W", "X", "Y", "Z", "É" >>

LOWERS ==
    << "a", "b", "c", "d", "e", "f", "g", "h", "i", "j", "k", "l", "m", "n",
       "o", "p", "q", "r", "s", "t", "u", "v", "w", "x", "y", "z", "é" >>

upper_char(c) ==
    IF \E i \in DOMAIN LOWERS : LOWERS[i] = c
    THEN UPPERS[CHOOSE i \in DOMAIN LOWERS : LOWERS[i] = c] ELSE c

lower_char(c) ==
    IF \E i \in DOMAIN UPPERS : UPPERS[i] = c
    THEN LOWERS[CHOOSE i \in DOMAIN UPPERS : UPPERS[i] = c] ELSE c

\* str.upper / str.lower
upper(text) == [i \in DOMAIN text |-> upper_char(text[i])]

lower(text) == [i \in DOMAIN text |-> lower_char(text[i])]

\* the Python test  part in text  on strings
IsSubstring(part, text) ==
    \E k \in 0..(Len(text) - Len(part)) :
        \A i \in 1..Len(part) : text[k + i] = part[i]

\* the characters of each stat name (the keys of STAT_EMOJIS)
STAT_CHARS ==
    ("Force Physique" :> << "F","o","r","c","e"," ","P","h","y","s","i","q","u","e" >>) @@
    ("Précision" :> << "P","r","é","c","i","s","i","o","n" >>) @@
    ("Manip. Ballon" :> << "M","a","n","i","p","."," ","B","a","l","l","o","n" >>) @@
    ("Agilité" :> << "A","g","i","l","i","t","é" >>) @@
    ("Détente" :> << "D","é","t","e","n","t","e" >>) @@
    ("Défense" :> << "D","é","f","e","n","s","e" >>) @@
    ("Vitesse" :> << "V","i","t","e","s","s","e" >>) @@
    ("Endurance" :> << "E","n","d","u","r","a","n","c","e" >>)

STAT_ABBREVIATIONS ==
    ("Force Physique" :> << "F","O","R" >>) @@
    ("Précision" :> << "P","R","E","C" >>) @@
    ("Manip. Ballon" :> << "B","A","L","L" >>) @@
    ("Agilité" :> << "A","G","I" >>) @@
    ("Détente" :> << "D","E","T" >>) @@
    ("Défense" :> << "D","E","F" >>) @@
    ("Vitesse" :> << "V","I","T" >>) @@
    ("Endurance" :> << "E","N","D" >>)

\* the first stat, in the dict's order, among those of matching; <<>> when
\* there is none
FirstStat(matching) ==
    IF \E i \in DOMAIN STAT_NAMES : STAT_NAMES[i] \in matching
    THEN << STAT_NAMES[CHOOSE i \in DOMAIN STAT_NAMES :
                /\ STAT_NAMES[i] \in matching
                /\ \A j \in DOMAIN STAT_NAMES :
                       STAT_NAMES[j] \in matching => i <= j] >>
    ELSE << >>

\* validate_stat_name without the loop over the abbreviations
validate_stat_name_unabbreviated(stat_name) ==
    LET exact == { n \in StatSet : STAT_CHARS[n] = stat_name }
        partial == { n \in StatSet :
                       IsSubstring(lower(stat_name), lower(STAT_CHARS[n])) }
    IN IF FirstStat(exact) # << >> THEN FirstStat(exact)
       ELSE FirstStat(partial)

\* config.validate_stat_name: <<full name>>, or <<>> for None
validate_stat_name(stat_name) ==
    LET exact == { n \in StatSet : STAT_CHARS[n] = stat_name }
        abbrev == { n \in StatSet : upper(stat_name) = STAT_ABBREVIATIONS[n] }
        partial == { n \in StatSet :
                       IsSubstring(lower(stat_name), lower(STAT_CHARS[n])) }
    IN IF FirstStat(exact) # << >> THEN FirstStat(exact)
       ELSE IF FirstStat(abbrev) # << >> THEN FirstStat(abbrev)
       ELSE FirstStat(partial)

-----------------------------------------------------------------------------
(* models.py: PlayerProfile *)

Max(a, b) == IF a >= b THEN a ELSE b

Min(a, b) == IF a <= b THEN a ELSE b

\* PlayerProfile.__init__ (the empty string of a free-text field is << >>)
PlayerProfile(user_id, username, archetype) ==
    [ user_id |-> user_id,
      username |-> username,
      archetype |-> archetype,
      stats |-> [s \in StatSet |-> 500],
      available_points |-> 0,
      character_name |-> << >>,
      first_name |-> << >>,
      age |-> 0,
      height |-> 0,
      weight |-> 0,
      profile_image |-> << >>,
      embed_color |-> embed_color,
      created_at |-> now,
      updated_at |-> now ]

\* the ceiling written in apply_archetype_bonus
bonus_ceiling == 100

\* the ceiling written in add_stat_points
add_ceiling == 1000

\* PlayerProfile.apply_archetype_bonus
apply_archetype_bonus(profile, archetype_config) ==
    IF profile.archetype \in DOMAIN archetype_config
    THEN LET bonuses == archetype_config[profile.archetype]
         IN [profile EXCEPT !.stats =
                [s \in DOMAIN profile.stats |->
                    IF s \in DOMAIN bonuses
                    THEN Max(0, Min(bonus_ceiling, profile.stats[s] + bonuses[s]))
                    ELSE profile.stats[s]]]
    ELSE profile


\* add_stat_points forgetting to take the points off the balance
add_stat_points_free(profile, stat, points) ==
    IF stat \notin DOMAIN profile.stats THEN <<FALSE, profile>>
    ELSE IF points < 0 \/ points > profile.available_points THEN <<FALSE, profile>>
    ELSE IF profile.stats[stat] + points > add_ceiling THEN <<FALSE, profile>>
    ELSE <<TRUE, [profile EXCEPT !.stats[stat] = profile.stats[stat] + points,
                                 !.updated_at = now]>>

\* add_stat_points taking one point more from the balance than it adds
add_stat_points_fee(profile, stat, points) ==
    IF stat \notin DOMAIN profile.stats THEN <<FALSE, profile>>
    ELSE IF points < 0 \/ points > profile.available_points THEN <<FALSE, profile>>
    ELSE IF profile.stats[stat] + points > add_ceiling THEN <<FALSE, profile>>
    ELSE <<TRUE, [profile EXCEPT !.stats[stat] = profile.stats[stat] + points,
                                 !.available_points = profile.available_points - points - 1,
                                 !.updated_at = now]>>

\* PlayerProfile.add_stat_points: <<returned flag, profile afterwards>>
add_stat_points(profile, stat, points) ==
    IF stat \notin DOMAIN profile.stats THEN <<FALSE, profile>>
    ELSE IF points < 0 \/ points > profile.available_points THEN <<FALSE, profile>>
    ELSE IF profile.stats[stat] + points > add_ceiling THEN <<FALSE, profile>>
    ELSE <<TRUE, [profile EXCEPT !.stats[stat] = profile.stats[stat] + points,
                                 !.available_points = profile.available_points - points,
                                 !.updated_at = now]>>

RECURSIVE SumSeq(_)
SumSeq(q) == IF q = <<>> THEN 0 ELSE Head(q) + SumSeq(Tail(q))

\* PlayerProfile.get_total_stats
get_total_stats(profile) ==
    SumSeq([i \in DOMAIN STAT_NAMES |-> profile.stats[STAT_NAMES[i]]])

\* json.dumps of the stats dict: the key/value pairs in the dict's order
json_dumps(stats) ==
    [i \in DOMAIN STAT_NAMES |-> <<STAT_NAMES[i], stats[STAT_NAMES[i]]>>]

\* json.loads: the dict of the pairs
json_loads(text) ==
    [s \in {text[i][1] : i \in DOMAIN text} |->
        text[CHOOSE i \in DOMAIN text : text[i][1] = s /\
                \A j \in DOMAIN text : text[j][1] = s => j <= i][2] ]

\* datetime.isoformat / datetime.fromisoformat
isoformat(t) == <<"iso", t>>

fromisoformat(text) == text[2]

\* PlayerProfile.to_dict
to_dict(profile) ==
    [ user_id |-> profile.user_id,
      username |-> profile.username,
      archetype |-> profile.archetype,
      stats |-> json_dumps(profile.stats),
      available_points |-> profile.available_points,
      character_name |-> profile.character_name,
      first_name |-> profile.first_name,
      age |-> profile.age,
      height |-> profile.height,
      weight |-> profile.weight,
      profile_image |-> profile.profile_image,
      embed_color |-> profile.embed_color,
      created_at |-> isoformat(profile.created_at),
      updated_at |-> isoformat(profile.updated_at) ]

\* PlayerProfile.from_dict
from_dict(data) ==
    [ PlayerProfile(data.user_id, data.username, data.archetype) EXCEPT
      !.stats = json_loads(data.stats),
      !.available_points = data.available_points,
      !.character_name = data.character_name,
      !.first_name = data.first_name,
      !.age = data.age,
      !.height = data.height,
      !.weight = data.weight,
      !.profile_image = data.profile_image,
      !.embed_color = data.embed_color,
      !.created_at = fromisoformat(data.created_at),
      !.updated_at = fromisoformat(data.updated_at) ]

-----------------------------------------------------------------------------
(* models.py: DatabaseManager.  Each call is given whether sqlite raises  *)
(* inside it (raises = TRUE): the call catches the exception itself.       *)

None == <<>>

Some(x) == <<x>>

\* the rows of player_profiles, in the order of their key
RECURSIVE rows_of(_)
rows_of(table) ==
    IF DOMAIN table = {} THEN << >>
    ELSE LET least == CHOOSE u \in DOMAIN table : \A v \in DOMAIN table : u <= v
         IN << table[least] >>
                \o rows_of([u \in DOMAIN table \ {least} |-> table[u]])

\* the table a SELECT ... WHERE user_id = ? reads: for each key a row of it
table_of(rows) ==
    [ u \in { rows[i].user_id : i \in DOMAIN rows } |->
        rows[CHOOSE i \in DOMAIN rows : rows[i].user_id = u] ]

\* a plain INSERT, which adds the row whatever the table holds
insert_keeping(rows, data) == Append(rows, data)

\* INSERT OR REPLACE on a table whose PRIMARY KEY is user_id: the row of
\* the same key is deleted and the new row added
insert_or_replace(rows, data) ==
    SelectSeq(rows, LAMBDA row : row.user_id # data.user_id) \o << data >>

\* DatabaseManager.save_profile (INSERT OR REPLACE): <<returned flag, table>>
save_profile(table, profile, raises) ==
    IF raises THEN <<FALSE, table>>
    ELSE <<TRUE, table_of(insert_or_replace(rows_of(table), to_dict(profile)))>>

\* DatabaseManager.get_profile: None or the profile
get_profile(table, user_id, raises) ==
    IF raises THEN None
    ELSE IF user_id \in DOMAIN table THEN Some(from_dict(table[user_id]))
    ELSE None

\* delete_profile returning True whatever the DELETE removed
delete_profile_silent(table, user_id, raises) ==
    IF raises THEN <<FALSE, table>>
    ELSE <<TRUE, [u \in DOMAIN table \ {user_id} |-> table[u]]>>

\* DatabaseManager.delete_profile: <<rowcount > 0, table>>
delete_profile(table, user_id, raises) ==
    IF raises THEN <<FALSE, table>>
    ELSE <<user_id \in DOMAIN table,
           [u \in DOMAIN table \ {user_id} |-> table[u]]>>

\* DatabaseManager.log_action: the action_logs rows afterwards
log_action(rows, user_id, action, details, admin_id, raises) ==
    IF raises THEN rows
    ELSE Append(rows, [ user_id |-> user_id, action |-> action,
                        details |-> details, admin_id |-> admin_id,
                        timestamp |-> isoformat(now) ])

-----------------------------------------------------------------------------
(* The guild: its members, their roles and permissions.  Member 1 holds    *)
(* the Pivot position role, member 2 no position role, member 3 is staff.  *)

Members ==
    (1 :> [ display_name |-> "Ana", roles |-> <<"@everyone", "r:Pivot">>,
            owner |-> FALSE, administrator |-> FALSE,
            manage_guild |-> FALSE, manage_roles |-> FALSE ]) @@
    (2 :> [ display_name |-> "Bob", roles |-> <<"@everyone">>,
            owner |-> FALSE, administrator |-> FALSE,
            manage_guild |-> FALSE, manage_roles |-> FALSE ]) @@
    (3 :> [ display_name |-> "Cyd", roles |-> <<"@everyone", "Staff">>,
            owner |-> FALSE, administrator |-> FALSE,
            manage_guild |-> FALSE, manage_roles |-> TRUE ]) @@
    (4 :> [ display_name |-> "Dee", roles |-> <<"@everyone">>,
            owner |-> TRUE, administrator |-> TRUE,
            manage_guild |-> TRUE, manage_roles |-> TRUE ])

MemberIds == DOMAIN Members

\* the members that own (or are the target of) a profile in the exploration
Users == {1}

\* the members that issue the staff commands: a player and a staff member
Actors == {1, 3}

\* the members that issue the prefix staff commands and /addpoints: the same
\* and the owner of the guild, who has no staff role
GuildActors == {1, 3, 4}

\* where a slash command is issued: in the guild with the member cached, in
\* the guild with guild.get_member() returning None, or in a direct message
Contexts == {"guild", "uncached", "dm"}

\* which store call of a handler raises, if any
Faults == IF env = "faulty" THEN {"none", "load", "save", "log", "delete"}
          ELSE {"none"}

\* the calls a command makes, and so the faults it can meet: a request for
\* confirmation only reads, the other commands read, save and log, and a
\* confirmation deletes or saves, and logs
LoadFaults == Faults \cap {"none", "load"}

SaveFaults == Faults \ {"delete"}

ConfirmFaults == Faults \ {"load"}

RoleSet(member) == { member.roles[i] : i \in DOMAIN member.roles }

\* config.is_admin(member_roles, member): member is None when withMember is FALSE
is_admin(member, withMember) ==
    \/ withMember /\ member.owner
    \/ withMember /\ (member.administrator \/ member.manage_guild)
    \/ RoleSet(member) \cap ADMIN_ROLES # {}

\* admin_commands.check_admin_permissions
check_admin_permissions(actor, ctx) ==
    IF ctx # "dm" /\ Members[actor].owner THEN TRUE
    ELSE IF ctx = "guild" THEN is_admin(Members[actor], TRUE)
    ELSE FALSE

-----------------------------------------------------------------------------
(* What a handler leaves behind: the tables, the waiting views, and the    *)
(* answer it sends (result) with the number the answer shows (report).     *)

Out(table, rows, waiting, result, report) ==
    [ db |-> table, logs |-> rows, views |-> waiting,
      result |-> result, report |-> report ]

Same(result, report) == Out(db, logs, views, result, report)

\* the points a profile created by !create starts with
starting_points == 200

\* the keys of an ARCHETYPES entry
ARCHETYPE_KEYS == {"description", "stat_bonuses", "position"}


\* !create without the look-up of an existing profile
create_profile_old_again(uid, f) ==
    LET archetype == get_archetype_from_roles(Members[uid].roles)
        profile == [ apply_archetype_bonus(
                        PlayerProfile(uid, Members[uid].display_name, archetype),
                        ARCHETYPES)
                     EXCEPT !.available_points = starting_points ]
        saved == save_profile(db, profile, f = "save")
    IN IF saved[1]
       THEN Out(saved[2],
                log_action(logs, uid, "PROFILE_CREATED",
                           <<"Archetype", archetype>>, 0, f = "log"),
                views, "ok", profile.available_points)
       ELSE Same("PersistenceFailure", 0)

\* commands_old.create_profile (!create)
create_profile_old(uid, f) ==
    LET existing_profile == get_profile(db, uid, f = "load")
        archetype == get_archetype_from_roles(Members[uid].roles)
        profile == [ apply_archetype_bonus(
                        PlayerProfile(uid, Members[uid].display_name, archetype),
                        ARCHETYPES)
                     EXCEPT !.available_points = starting_points ]
        saved == save_profile(db, profile, f = "save")
    IN IF existing_profile # None THEN Same("AlreadyExists", 0)
       ELSE IF saved[1]
            THEN Out(saved[2],
                     log_action(logs, uid, "PROFILE_CREATED",
                                <<"Archetype", archetype>>, 0, f = "log"),
                     views, "ok", profile.available_points)
            ELSE Same("PersistenceFailure", 0)

\* slash_commands.BasketballCommands.create_profile (/create): after the save
\* and the log it reads archetype_info["bonuses"], a key no ARCHETYPES entry
\* has, and the except branch answers with the internal error
create_profile(uid, ctx, f) ==
    LET existing_profile == get_profile(db, uid, f = "load")
        archetype == IF ctx = "guild"
                     THEN Some(get_archetype_from_roles(Members[uid].roles))
                     ELSE None
        profile == PlayerProfile(uid, Members[uid].display_name, archetype[1])
        saved == save_profile(db, profile, f = "save")
    IN IF existing_profile # None THEN Same("AlreadyExists", 0)
       ELSE IF archetype = None THEN Same("NoArchetype", 0)
       ELSE IF saved[1]
            THEN Out(saved[2],
                     log_action(logs, uid, "PROFILE_CREATED",
                                <<"Archetype", archetype[1]>>, 0, f = "log"),
                     views,
                     IF "bonuses" \in ARCHETYPE_KEYS THEN "ok" ELSE "InternalError",
                     0)
            ELSE Same("PersistenceFailure", 0)


\* !add without its own comparison of the points with the balance
add_stat_points_old_unfunded(uid, stat_name, points, f) ==
    LET found == get_profile(db, uid, f = "load")
        profile == found[1]
        validated == validate_stat_name(stat_name)
        validated_stat == validated[1]
        current_stat == profile.stats[validated_stat]
        added == add_stat_points(profile, validated_stat, points)
        saved == save_profile(db, added[2], f = "save")
    IN IF found = None THEN Same("NotFound", 0)
       ELSE IF validated = None THEN Same("InvalidStat", 0)
       ELSE IF points <= 0 THEN Same("InvalidAmount", 0)
       ELSE IF points > max_points_per_add
            THEN Same("ExceedsBatchLimit", max_points_per_add)
       ELSE IF current_stat + points > max_stat_value
            THEN Same("StatCeilingExceeded", max_stat_value - current_stat)
       ELSE IF added[1]
            THEN IF saved[1]
                 THEN Out(saved[2],
                          log_action(logs, uid, "POINTS_ADDED",
                                     <<points, validated_stat>>, 0, f = "log"),
                          views, "ok", added[2].available_points)
                 ELSE Same("PersistenceFailure", 0)
            ELSE Same("Error", 0)

\* commands_old.add_stat_points (!add)
add_stat_points_old(uid, stat_name, points, f) ==
    LET found == get_profile(db, uid, f = "load")
        profile == found[1]
        validated == validate_stat_name(stat_name)
        validated_stat == validated[1]
        current_stat == profile.stats[validated_stat]
        added == add_stat_points(profile, validated_stat, points)
        saved == save_profile(db, added[2], f = "save")
    IN IF found = None THEN Same("NotFound", 0)
       ELSE IF validated = None THEN Same("InvalidStat", 0)
       ELSE IF points <= 0 THEN Same("InvalidAmount", 0)
       ELSE IF points > max_points_per_add
            THEN Same("ExceedsBatchLimit", max_points_per_add)
       ELSE IF points > profile.available_points
            THEN Same("InsufficientPoints", profile.available_points)
       ELSE IF current_stat + points > max_stat_value
            THEN Same("StatCeilingExceeded", max_stat_value - current_stat)
       ELSE IF added[1]
            THEN IF saved[1]
                 THEN Out(saved[2],
                          log_action(logs, uid, "POINTS_ADDED",
                                     <<points, validated_stat>>, 0, f = "log"),
                          views, "ok", added[2].available_points)
                 ELSE Same("PersistenceFailure", 0)
            ELSE Same("Error", 0)


\* /addstat without the comparison of the points with the balance
add_stat_overdrawn(uid, statistique, points, f) ==
    LET found == get_profile(db, uid, f = "load")
        profile == found[1]
        current_stat == profile.stats[statistique]
        changed == [profile EXCEPT
                       !.stats[statistique] = profile.stats[statistique] + points,
                       !.available_points = profile.available_points - points,
                       !.updated_at = now]
        saved == save_profile(db, changed, f = "save")
    IN IF found = None THEN Same("NotFound", 0)
       ELSE IF points <= 0 THEN Same("InvalidAmount", 0)
       ELSE IF current_stat + points > max_stat_value
            THEN Same("StatCeilingExceeded", max_stat_value - current_stat)
       ELSE IF saved[1]
            THEN Out(saved[2],
                     log_action(logs, uid, "STAT_ADDED",
                                <<statistique, points>>, 0, f = "log"),
                     views, "ok", changed.available_points)
            ELSE Same("PersistenceFailure", 0)

\* /addstat comparing the new value with the ceiling by >= instead of >
add_stat_short(uid, statistique, points, f) ==
    LET found == get_profile(db, uid, f = "load")
        profile == found[1]
        current_stat == profile.stats[statistique]
        changed == [profile EXCEPT
                       !.stats[statistique] = profile.stats[statistique] + points,
                       !.available_points = profile.available_points - points,
                       !.updated_at = now]
        saved == save_profile(db, changed, f = "save")
    IN IF found = None THEN Same("NotFound", 0)
       ELSE IF points <= 0 THEN Same("InvalidAmount", 0)
       ELSE IF points > profile.available_points
            THEN Same("InsufficientPoints", profile.available_points)
       ELSE IF current_stat + points >= max_stat_value
            THEN Same("StatCeilingExceeded", max_stat_value - current_stat)
       ELSE IF saved[1]
            THEN Out(saved[2],
                     log_action(logs, uid, "STAT_ADDED",
                                <<statistique, points>>, 0, f = "log"),
                     views, "ok", changed.available_points)
            ELSE Same("PersistenceFailure", 0)

\* /addstat refusing only negative points, as PlayerProfile.add_stat_points does
add_stat_zero(uid, statistique, points, f) ==
    LET found == get_profile(db, uid, f = "load")
        profile == found[1]
        current_stat == profile.stats[statistique]
        changed == [profile EXCEPT
                       !.stats[statistique] = profile.stats[statistique] + points,
                       !.available_points = profile.available_points - points,
                       !.updated_at = now]
        saved == save_profile(db, changed, f = "save")
    IN IF found = None THEN Same("NotFound", 0)
       ELSE IF points < 0 THEN Same("InvalidAmount", 0)
       ELSE IF points > profile.available_points
            THEN Same("InsufficientPoints", profile.available_points)
       ELSE IF current_stat + points > max_stat_value
            THEN Same("StatCeilingExceeded", max_stat_value - current_stat)
       ELSE IF saved[1]
            THEN Out(saved[2],
                     log_action(logs, uid, "STAT_ADDED",
                                <<statistique, points>>, 0, f = "log"),
                     views, "ok", changed.available_points)
            ELSE Same("PersistenceFailure", 0)

\* slash_commands.BasketballCommands.add_stat (/addstat): the stat is one of
\* the command's choices
add_stat(uid, statistique, points, f) ==
    LET found == get_profile(db, uid, f = "load")
        profile == found[1]
        current_stat == profile.stats[statistique]
        changed == [profile EXCEPT
                       !.stats[statistique] = profile.stats[statistique] + points,
                       !.available_points = profile.available_points - points,
                       !.updated_at = now]
        saved == save_profile(db, changed, f = "save")
    IN IF found = None THEN Same("NotFound", 0)
       ELSE IF points <= 0 THEN Same("InvalidAmount", 0)
       ELSE IF points > profile.available_points
            THEN Same("InsufficientPoints", profile.available_points)
       ELSE IF current_stat + points > max_stat_value
            THEN Same("StatCeilingExceeded", max_stat_value - current_stat)
       ELSE IF saved[1]
            THEN Out(saved[2],
                     log_action(logs, uid, "STAT_ADDED",
                                <<statistique, points>>, 0, f = "log"),
                     views, "ok", changed.available_points)
            ELSE Same("PersistenceFailure", 0)

\* the check of @commands.has_permissions(manage_roles=True): the owner and
\* an administrator hold every permission
has_permissions_manage_roles(member) ==
    member.owner \/ member.administrator \/ member.manage_roles

\* commands_old.give_points (!givepoints)
give_points(actor, target, points, f) ==
    LET found == get_profile(db, target, f = "load")
        profile == found[1]
        changed == [profile EXCEPT
                       !.available_points = profile.available_points + points]
        saved == save_profile(db, changed, f = "save")
    IN IF ~has_permissions_manage_roles(Members[actor])
       THEN Same("PermissionDenied", 0)
       ELSE IF ~is_admin(Members[actor], FALSE) THEN Same("PermissionDenied", 0)
       ELSE IF found = None THEN Same("NotFound", 0)
       ELSE IF points <= 0 THEN Same("InvalidAmount", 0)
       ELSE IF saved[1]
            THEN Out(saved[2],
                     log_action(logs, target, "POINTS_GIVEN", <<points>>,
                                actor, f = "log"),
                     views, "ok", changed.available_points)
            ELSE Same("PersistenceFailure", 0)

\* /addpoints logging without the id of the staff member
add_points_unsigned(actor, ctx, joueur, points, f) ==
    LET found == get_profile(db, joueur, f = "load")
        profile == found[1]
        changed == [profile EXCEPT
                       !.available_points = profile.available_points + points,
                       !.updated_at = now]
        saved == save_profile(db, changed, f = "save")
    IN IF ~check_admin_permissions(actor, ctx) THEN Same("PermissionDenied", 0)
       ELSE IF found = None THEN Same("NotFound", 0)
       ELSE IF points <= 0 THEN Same("InvalidAmount", 0)
       ELSE IF saved[1]
            THEN Out(saved[2],
                     log_action(logs, joueur, "POINTS_ADDED", <<points, "admin">>,
                                0, f = "log"),
                     views, "ok", changed.available_points)
            ELSE Same("PersistenceFailure", 0)

\* admin_commands.AdminCommands.add_points (/addpoints)
add_points(actor, ctx, joueur, points, f) ==
    LET found == get_profile(db, joueur, f = "load")
        profile == found[1]
        changed == [profile EXCEPT
                       !.available_points = profile.available_points + points,
                       !.updated_at = now]
        saved == save_profile(db, changed, f = "save")
    IN IF ~check_admin_permissions(actor, ctx) THEN Same("PermissionDenied", 0)
       ELSE IF found = None THEN Same("NotFound", 0)
       ELSE IF points <= 0 THEN Same("InvalidAmount", 0)
       ELSE IF saved[1]
            THEN Out(saved[2],
                     log_action(logs, joueur, "POINTS_ADDED", <<points, "admin">>,
                                actor, f = "log"),
                     views, "ok", changed.available_points)
            ELSE Same("PersistenceFailure", 0)


\* /setstat reading the old value after the assignment
set_stat_relogged(actor, ctx, joueur, statistique, valeur, f) ==
    LET found == get_profile(db, joueur, f = "load")
        profile == found[1]
        changed == [profile EXCEPT !.stats[statistique] = valeur,
                                   !.updated_at = now]
        old_value == changed.stats[statistique]
        saved == save_profile(db, changed, f = "save")
    IN IF ~check_admin_permissions(actor, ctx) THEN Same("PermissionDenied", 0)
       ELSE IF found = None THEN Same("NotFound", 0)
       ELSE IF valeur < 0 \/ valeur > max_stat_value
            THEN Same("OutOfRange", max_stat_value)
       ELSE IF saved[1]
            THEN Out(saved[2],
                     log_action(logs, joueur, "STAT_CHANGED",
                                <<statistique, old_value, valeur>>,
                                actor, f = "log"),
                     views, "ok", old_value)
            ELSE Same("PersistenceFailure", 0)

\* /setstat checking only the lower end of the range
set_stat_unbounded(actor, ctx, joueur, statistique, valeur, f) ==
    LET found == get_profile(db, joueur, f = "load")
        profile == found[1]
        old_value == profile.stats[statistique]
        changed == [profile EXCEPT !.stats[statistique] = valeur,
                                   !.updated_at = now]
        saved == save_profile(db, changed, f = "save")
    IN IF ~check_admin_permissions(actor, ctx) THEN Same("PermissionDenied", 0)
       ELSE IF found = None THEN Same("NotFound", 0)
       ELSE IF valeur < 0 THEN Same("OutOfRange", max_stat_value)
       ELSE IF saved[1]
            THEN Out(saved[2],
                     log_action(logs, joueur, "STAT_CHANGED",
                                <<statistique, old_value, valeur>>,
                                actor, f = "log"),
                     views, "ok", old_value)
            ELSE Same("PersistenceFailure", 0)

\* admin_commands.AdminCommands.set_stat (/setstat)
set_stat(actor, ctx, joueur, statistique, valeur, f) ==
    LET found == get_profile(db, joueur, f = "load")
        profile == found[1]
        old_value == profile.stats[statistique]
        changed == [profile EXCEPT !.stats[statistique] = valeur,
                                   !.updated_at = now]
        saved == save_profile(db, changed, f = "save")
    IN IF ~check_admin_permissions(actor, ctx) THEN Same("PermissionDenied", 0)
       ELSE IF found = None THEN Same("NotFound", 0)
       ELSE IF valeur < 0 \/ valeur > max_stat_value
            THEN Same("OutOfRange", max_stat_value)
       ELSE IF saved[1]
            THEN Out(saved[2],
                     log_action(logs, joueur, "STAT_CHANGED",
                                <<statistique, old_value, valeur>>,
                                actor, f = "log"),
                     views, "ok", old_value)
            ELSE Same("PersistenceFailure", 0)

\* admin_commands.AdminCommands.set_physical (/setphysical)
set_physical(actor, ctx, joueur, taille, poids, f) ==
    LET found == get_profile(db, joueur, f = "load")
        profile == found[1]
        changed == [profile EXCEPT
                       !.height = IF taille # 0 /\ taille > 0 THEN taille ELSE @,
                       !.weight = IF poids # 0 /\ poids > 0 THEN poids ELSE @,
                       !.updated_at = now]
        saved == save_profile(db, changed, f = "save")
    IN IF ~check_admin_permissions(actor, ctx) THEN Same("PermissionDenied", 0)
       ELSE IF found = None THEN Same("NotFound", 0)
       ELSE IF taille = 0 /\ poids = 0 THEN Same("NoChangeRequested", 0)
       ELSE IF saved[1]
            THEN Out(saved[2],
                     log_action(logs, joueur, "PHYSICAL_UPDATED", << >>,
                                actor, f = "log"),
                     views, "ok", 0)
            ELSE Same("PersistenceFailure", 0)

\* commands_old.set_physical_stats (!setphysical)
set_physical_stats(actor, target, height, weight, f) ==
    LET found == get_profile(db, target, f = "load")
        profile == found[1]
        changed == [profile EXCEPT
                       !.height = IF height > 0 THEN height ELSE @,
                       !.weight = IF weight > 0 THEN weight ELSE @,
                       !.updated_at = now]
        saved == save_profile(db, changed, f = "save")
    IN IF ~has_permissions_manage_roles(Members[actor])
       THEN Same("PermissionDenied", 0)
       ELSE IF ~is_admin(Members[actor], FALSE) THEN Same("PermissionDenied", 0)
       ELSE IF found = None THEN Same("NotFound", 0)
       ELSE IF saved[1]
            THEN Out(saved[2],
                     log_action(logs, target, "PHYSICAL_STATS_SET",
                                <<height, weight>>, actor, f = "log"),
                     views, "ok", 0)
            ELSE Same("PersistenceFailure", 0)

DIGITS == << "0", "1", "2", "3", "4", "5", "6", "7", "8", "9" >>

IsDigit(c) == \E i \in DOMAIN DIGITS : DIGITS[i] = c

DigitValue(c) == (CHOOSE i \in DOMAIN DIGITS : DIGITS[i] = c) - 1

RECURSIVE DigitsValue(_)
DigitsValue(text) ==
    IF text = << >> THEN 0
    ELSE 10 * DigitsValue(SubSeq(text, 1, Len(text) - 1)) + DigitValue(text[Len(text)])

RECURSIVE strip(_)
strip(text) ==
    IF text = << >> THEN text
    ELSE IF Head(text) = " " THEN strip(Tail(text))
    ELSE IF text[Len(text)] = " " THEN strip(SubSeq(text, 1, Len(text) - 1))
    ELSE text

\* the built-in int(str): <<n>>, or << >> when it raises ValueError
int(text) ==
    LET t == strip(text)
        signed == t # << >> /\ Head(t) \in {"+", "-"}
        body == IF signed THEN Tail(t) ELSE t
    IN IF body = << >> \/ \E i \in DOMAIN body : ~IsDigit(body[i]) THEN None
       ELSE IF signed /\ Head(t) = "-" THEN Some(0 - DigitsValue(body))
       ELSE Some(DigitsValue(body))

\* the assignment both customize commands make for a recognised field
customize_field(profile, field, value) ==
    IF field = "nom" THEN Some([profile EXCEPT !.character_name = value])
    ELSE IF field = "prénom" THEN Some([profile EXCEPT !.first_name = value])
    ELSE IF field = "âge"
         THEN IF int(value) = None THEN None
              ELSE Some([profile EXCEPT !.age = int(value)[1]])
    ELSE IF field = "image" THEN Some([profile EXCEPT !.profile_image = value])
    ELSE Some(profile)

\* slash_commands.BasketballCommands.customize_profile (/customize): champ is
\* one of the command's choices
customize_profile(uid, champ, valeur, f) ==
    LET found == get_profile(db, uid, f = "load")
        assigned == customize_field(found[1], champ, valeur)
        changed == [assigned[1] EXCEPT !.updated_at = now]
        saved == save_profile(db, changed, f = "save")
    IN IF found = None THEN Same("NotFound", 0)
       ELSE IF assigned = None THEN Same("InvalidAge", 0)
       ELSE IF saved[1]
            THEN Out(saved[2],
                     log_action(logs, uid, "PROFILE_CUSTOMIZED", <<champ>>,
                                0, f = "log"),
                     views, "ok", 0)
            ELSE Same("PersistenceFailure", 0)

\* the field names !customize accepts, already lower-cased
OLD_FIELDS ==
    ("nom" :> "nom") @@ ("name" :> "nom") @@
    ("prénom" :> "prénom") @@ ("prenom" :> "prénom") @@ ("firstname" :> "prénom") @@
    ("âge" :> "âge") @@ ("age" :> "âge") @@
    ("image" :> "image") @@ ("photo" :> "image") @@ ("avatar" :> "image")

\* commands_old.customize_profile (!customize)
customize_profile_old(uid, field, value, f) ==
    LET found == get_profile(db, uid, f = "load")
        assigned == customize_field(found[1], OLD_FIELDS[field], value)
        changed == [assigned[1] EXCEPT !.updated_at = now]
        saved == save_profile(db, changed, f = "save")
    IN IF found = None THEN Same("NotFound", 0)
       ELSE IF field = "" THEN Same("Usage", 0)
       ELSE IF field \notin DOMAIN OLD_FIELDS THEN Same("InvalidField", 0)
       ELSE IF assigned = None THEN Same("InvalidAge", 0)
       ELSE IF saved[1]
            THEN Out(saved[2],
                     log_action(logs, uid, "PROFILE_CUSTOMIZED",
                                <<OLD_FIELDS[field]>>, 0, f = "log"),
                     views, "ok", 0)
            ELSE Same("PersistenceFailure", 0)

\* COLOR_MAPPING of config.py
COLOR_MAPPING ==
    ("rouge" :> 16711680) @@ ("red" :> 16711680) @@
    ("vert" :> 65280) @@ ("green" :> 65280) @@
    ("bleu" :> 255) @@ ("blue" :> 255) @@
    ("violet" :> 9055202) @@ ("purple" :> 9055202) @@
    ("orange" :> 16739125) @@
    ("jaune" :> 16776960) @@ ("yellow" :> 16776960) @@
    ("rose" :> 16738740) @@ ("pink" :> 16738740) @@
    ("noir" :> 0) @@ ("black" :> 0) @@
    ("blanc" :> 16777215) @@ ("white" :> 16777215) @@
    ("cyan" :> 65535) @@ ("magenta" :> 16711935) @@
    ("basketball" :> 16739125)

\* config.get_color_from_name (the names here are already lower case)
get_color_from_name(color_name) ==
    IF color_name \in DOMAIN COLOR_MAPPING THEN COLOR_MAPPING[color_name]
    ELSE embed_color

\* /color logging and answering without looking at what save_profile returned
set_color_unchecked(uid, couleur, f) ==
    LET found == get_profile(db, uid, f = "load")
        changed == [found[1] EXCEPT !.embed_color = get_color_from_name(couleur),
                                    !.updated_at = now]
        saved == save_profile(db, changed, f = "save")
    IN IF found = None THEN Same("NotFound", 0)
       ELSE Out(saved[2],
                log_action(logs, uid, "COLOR_CHANGED", <<couleur>>,
                           0, f = "log"),
                views, "ok", changed.embed_color)

\* slash_commands.BasketballCommands.set_color (/color)
set_color(uid, couleur, f) ==
    LET found == get_profile(db, uid, f = "load")
        changed == [found[1] EXCEPT !.embed_color = get_color_from_name(couleur),
                                    !.updated_at = now]
        saved == save_profile(db, changed, f = "save")
    IN IF found = None THEN Same("NotFound", 0)
       ELSE IF saved[1]
            THEN Out(saved[2],
                     log_action(logs, uid, "COLOR_CHANGED", <<couleur>>,
                                0, f = "log"),
                     views, "ok", changed.embed_color)
            ELSE Same("PersistenceFailure", 0)

\* commands_old.set_embed_color (!color)
set_embed_color(uid, color_name, f) ==
    LET found == get_profile(db, uid, f = "load")
        new_color == get_color_from_name(color_name)
        changed == [found[1] EXCEPT !.embed_color = new_color,
                                    !.updated_at = now]
        saved == save_profile(db, changed, f = "save")
    IN IF found = None THEN Same("NotFound", 0)
       ELSE IF color_name = "" THEN Same("Usage", 0)
       ELSE IF new_color = embed_color /\ color_name \notin DOMAIN COLOR_MAPPING
            THEN Same("UnknownColor", 0)
       ELSE IF saved[1]
            THEN Out(saved[2],
                     log_action(logs, uid, "COLOR_CHANGED", <<color_name>>,
                                0, f = "log"),
                     views, "ok", new_color)
            ELSE Same("PersistenceFailure", 0)

-----------------------------------------------------------------------------
(* Destructive commands: the handler answers with a confirmation that      *)
(* waits at most 30 seconds; the store is touched when it is confirmed.    *)

\* at most this many confirmations wait at the same time
MaxViews == 1

\* the seconds a confirmation waits (discord.ui.View(timeout=30), wait_for)
confirm_timeout == 30

View(kind, target, actor, profile) ==
    [ kind |-> kind, target |-> target, actor |-> actor, profile |-> profile ]

\* admin_commands.AdminCommands.delete_profile (/deleteprofile), up to the
\* message that carries the ConfirmView
delete_profile_request(actor, ctx, joueur, f) ==
    LET found == get_profile(db, joueur, f = "load")
    IN IF ~check_admin_permissions(actor, ctx) THEN Same("PermissionDenied", 0)
       ELSE IF found = None THEN Same("NotFound", 0)
       ELSE Out(db, logs, views \cup {View("delete", joueur, actor, None)},
                "ConfirmRequested", confirm_timeout)

\* commands_old.delete_profile (!deleteprofile), up to bot.wait_for
delete_profile_old_request(actor, target, f) ==
    LET found == get_profile(db, target, f = "load")
    IN IF ~has_permissions_manage_roles(Members[actor])
       THEN Same("PermissionDenied", 0)
       ELSE IF ~is_admin(Members[actor], FALSE) THEN Same("PermissionDenied", 0)
       ELSE IF found = None THEN Same("NotFound", 0)
       ELSE Out(db, logs, views \cup {View("delete_old", target, actor, None)},
                "ConfirmRequested", confirm_timeout)

\* admin_commands.AdminCommands.reset_player (/resetplayer), up to the message
\* that carries the ResetConfirmView; the view's callbacks close over profile
reset_player_request(actor, ctx, joueur, f) ==
    LET found == get_profile(db, joueur, f = "load")
    IN IF ~check_admin_permissions(actor, ctx) THEN Same("PermissionDenied", 0)
       ELSE IF found = None THEN Same("NotFound", 0)
       ELSE Out(db, logs, views \cup {View("reset", joueur, actor, found)},
                "ConfirmRequested", confirm_timeout)

\* a deletion that takes the rows of the deleted member out of action_logs
delete_confirm_purging(view, f) ==
    LET deleted == delete_profile(db, view.target, f = "delete")
    IN IF deleted[1]
       THEN Out(deleted[2],
                log_action(SelectSeq(logs, LAMBDA row : row.user_id # view.target),
                           view.target, "PROFILE_DELETED", << >>,
                           view.actor, f = "log"),
                views \ {view}, "ok", 0)
       ELSE Out(deleted[2], logs, views \ {view}, "DeleteFailed", 0)

\* ConfirmView.confirm, and the reaction branch of the old !deleteprofile
delete_confirm(view, f) ==
    LET deleted == delete_profile(db, view.target, f = "delete")
    IN IF deleted[1]
       THEN Out(deleted[2],
                log_action(logs, view.target, "PROFILE_DELETED", << >>,
                           view.actor, f = "log"),
                views \ {view}, "ok", 0)
       ELSE Out(deleted[2], logs, views \ {view}, "DeleteFailed", 0)

\* the keys of BOT_CONFIG
BOT_CONFIG_KEYS ==
    { "command_prefix", "max_stat_value", "min_stat_value", "base_stat_value",
      "max_points_per_add", "embed_color", "success_color", "error_color",
      "warning_color" }

\* ResetConfirmView.confirm: its first statement reads BOT_CONFIG["base_stats"],
\* which BOT_CONFIG does not hold; the KeyError leaves the callback before any
\* assignment, nothing is answered and the view keeps waiting
reset_confirm(view, f) ==
    IF "base_stats" \notin BOT_CONFIG_KEYS \/ "archetype_bonuses" \notin BOT_CONFIG_KEYS
    THEN Same("Unhandled", 0)
    ELSE LET changed == [view.profile[1] EXCEPT
                            !.available_points = 0, !.updated_at = now]
             saved == save_profile(db, changed, f = "save")
         IN IF saved[1]
            THEN Out(saved[2],
                     log_action(logs, view.target, "PLAYER_RESET", << >>,
                                view.actor, f = "log"),
                     views \ {view}, "ok", 0)
            ELSE Out(db, logs, views \ {view}, "PersistenceFailure", 0)

\* who can answer a confirmation: the views of the slash commands are sent
\* ephemeral, to the requesting member alone; the reactions of !deleteprofile
\* are open to everyone and check() keeps those of ctx.author
can_press(view, presser) ==
    view.kind = "delete_old" \/ presser = view.actor

\* the Confirmer button or the confirming reaction of a member
press(view, presser, f) ==
    IF presser # view.actor THEN Same("Ignored", 0)
    ELSE IF view.kind = "reset" THEN reset_confirm(view, f)
    ELSE delete_confirm(view, f)

\* !deleteprofile taking any reaction of the author for the confirmation
dismiss_any_reaction(view, how) ==
    IF view.kind = "delete_old" /\ how = "Cancelled"
    THEN delete_confirm(view, "none")
    ELSE Out(db, logs, views \ {view}, how, 0)

\* the Annuler button, the other reaction, or the 30 seconds running out
dismiss(view, how) == Out(db, logs, views \ {view}, how, 0)

-----------------------------------------------------------------------------
(* The inputs explored *)

PointsIn == {-1, 0, 5, 10, 101}

GrantIn == {-50, 0, 50}

AdminGrantIn == {-50, 0, 100}

StatChoices == {"Vitesse"}

StatTokens == { << "V","I","T" >>, << "x","y","z" >> }

SetStatIn == {-1, 995, 1001}

PhysicalIn == { <<0, 0>>, <<180, 0>>, <<-5, 0>> }

OldPhysicalIn == { <<0, 0>>, <<180, 75>> }

CustomizeIn == { <<"nom", << "J","o" >> >>, <<"âge", << "2","3" >> >>,
                 <<"âge", << "x" >> >> }

OldFieldsIn == { "name", "zzz" }

ColorIn == { "rouge", "gris" }

-----------------------------------------------------------------------------
(* The state machine *)

Stored(uid) == get_profile(db, uid, FALSE)

\* the handler invocations that can be in flight together
MaxTasks == 3

TaskIds == 1 .. MaxTasks

\* a handler invocation that has not been dispatched yet
IdleTask ==
    [ pc |-> "idle", op |-> "none", uid |-> 0, points |-> 0, result |-> "none",
      write |-> None, row |-> None ]

NoArgs == [stat |-> "", points |-> 0]

\* the two allocation commands, !add and /addstat
AllocOps == {"add_old", "add_stat"}

\* no allocation has been made since the last command of another kind
NoRun == [ calls |-> 0, spent |-> 0, total |-> 0, points |-> 0 ]

\* the allocations made in a row on the profile of uid, this one included:
\* how many, the points of those that answered ok, and the total of the stats
\* and the balance the first of them found
Run(op, uid, args, out) ==
    IF op \notin AllocOps \/ Stored(uid) = None THEN NoRun
    ELSE LET first == last.op \notin AllocOps \/ last.uid # uid
                          \/ last.run.calls = 0
             start == IF first
                      THEN [ calls |-> 0, spent |-> 0,
                             total |-> get_total_stats(Stored(uid)[1]),
                             points |-> Stored(uid)[1].available_points ]
                      ELSE last.run
         IN [ start EXCEPT !.calls = @ + 1,
                           !.spent = @ + (IF out.result = "ok"
                                          THEN args.points ELSE 0) ]

Init ==
    /\ db = << >>
    /\ logs = << >>
    /\ now = 0
    /\ views = {}
    /\ env = "nominal"
    /\ last = [ op |-> "none", uid |-> 0, actor |-> 0, args |-> NoArgs,
                fault |-> "none", result |-> "none", report |-> 0,
                changed |-> TRUE, before |-> None, logged |-> 0,
                run |-> NoRun ]
    /\ tasks = [t \in TaskIds |-> IdleTask]
    /\ running = 0

\* A command is taken up while the clock runs.  A command that changed nothing
\* leaves the store, the log, the views and the clock exactly as they were, so
\* whatever can follow it can follow the state before it: the exploration
\* records its answer in last and continues from the states that differ.
Ready ==
    /\ last.changed
    /\ now < (IF env = "faulty" THEN MaxFaultClock ELSE MaxClock)

COSMETIC_ACTIONS ==
    { "PHYSICAL_UPDATED", "PHYSICAL_STATS_SET", "PROFILE_CUSTOMIZED",
      "COLOR_CHANGED" }

\* the personalisation commands logged so far are fewer than the bound
CosmeticReady ==
    Cardinality({ i \in DOMAIN logs : logs[i].action \in COSMETIC_ACTIONS })
        < MaxCosmetic

\* a handler ran: the store and the views are as it left them, the clock has
\* moved on if it changed anything
Do(op, uid, actor, args, f, out) ==
    /\ db' = out.db
    /\ logs' = out.logs
    /\ views' = out.views
    /\ now' = IF <<out.db, out.logs, out.views>> # <<db, logs, views>>
              THEN now + 1 ELSE now
    /\ last' = [ op |-> op, uid |-> uid, actor |-> actor, args |-> args,
                 fault |-> f, result |-> out.result, report |-> out.report,
                 changed |-> <<out.db, out.logs, out.views>> # <<db, logs, views>>,
                 before |-> Stored(uid),
                 logged |-> Len(out.logs) - Len(logs),
                 run |-> Run(op, uid, args, out) ]
    /\ UNCHANGED <<env, tasks, running>>

CreateOld ==
    /\ Ready
    /\ \E uid \in Users, f \in SaveFaults :
        Do("create_old", uid, uid, NoArgs, f, create_profile_old(uid, f))

Create ==
    /\ Ready
    /\ \E uid \in Users, ctx \in Contexts, f \in SaveFaults :
        Do("create", uid, uid, NoArgs, f, create_profile(uid, ctx, f))

AddOld ==
    /\ Ready
    /\ \E uid \in Users, tok \in StatTokens, points \in PointsIn, f \in SaveFaults :
        Do("add_old", uid, uid,
           [stat |-> IF validate_stat_name(tok) = None THEN ""
                     ELSE validate_stat_name(tok)[1], points |-> points],
           f, add_stat_points_old(uid, tok, points, f))

AddStat ==
    /\ Ready
    /\ \E uid \in Users, stat \in StatChoices, points \in PointsIn, f \in SaveFaults :
        Do("add_stat", uid, uid, [stat |-> stat, points |-> points],
           f, add_stat(uid, stat, points, f))

GivePoints ==
    /\ Ready
    /\ \E actor \in GuildActors, uid \in Users, points \in GrantIn, f \in SaveFaults :
        Do("give_points", uid, actor, [stat |-> "", points |-> points],
           f, give_points(actor, uid, points, f))

AddPoints ==
    /\ Ready
    /\ \E actor \in GuildActors, ctx \in Contexts, uid \in Users,
       points \in AdminGrantIn, f \in SaveFaults :
        Do("add_points", uid, actor, [stat |-> "", points |-> points],
           f, add_points(actor, ctx, uid, points, f))

SetStat ==
    /\ Ready
    /\ \E actor \in Actors, ctx \in Contexts, uid \in Users,
       stat \in StatChoices, valeur \in SetStatIn, f \in SaveFaults :
        Do("set_stat", uid, actor, [stat |-> stat, points |-> valeur],
           f, set_stat(actor, ctx, uid, stat, valeur, f))

SetPhysical ==
    /\ Ready
    /\ CosmeticReady
    /\ \E actor \in Actors, ctx \in Contexts, uid \in Users, hw \in PhysicalIn,
       f \in SaveFaults :
        Do("set_physical", uid, actor, [height |-> hw[1], weight |-> hw[2]],
           f, set_physical(actor, ctx, uid, hw[1], hw[2], f))

SetPhysicalOld ==
    /\ Ready
    /\ CosmeticReady
    /\ \E actor \in GuildActors, uid \in Users, hw \in OldPhysicalIn, f \in SaveFaults :
        Do("set_physical_old", uid, actor, [height |-> hw[1], weight |-> hw[2]],
           f, set_physical_stats(actor, uid, hw[1], hw[2], f))

Customize ==
    /\ Ready
    /\ CosmeticReady
    /\ \E uid \in Users, cv \in CustomizeIn, f \in SaveFaults :
        Do("customize", uid, uid, [field |-> cv[1], value |-> cv[2]],
           f, customize_profile(uid, cv[1], cv[2], f))

CustomizeOld ==
    /\ Ready
    /\ CosmeticReady
    /\ \E uid \in Users, field \in OldFieldsIn, f \in SaveFaults :
        Do("customize_old", uid, uid, [field |-> field, value |-> << "J","o" >>],
           f, customize_profile_old(uid, field, << "J","o" >>, f))

SetColor ==
    /\ Ready
    /\ CosmeticReady
    /\ \E uid \in Users, couleur \in ColorIn, f \in SaveFaults :
        Do("set_color", uid, uid, [color |-> couleur],
           f, set_color(uid, couleur, f))

SetColorOld ==
    /\ Ready
    /\ CosmeticReady
    /\ \E uid \in Users, couleur \in ColorIn, f \in SaveFaults :
        Do("color_old", uid, uid, [color |-> couleur],
           f, set_embed_color(uid, couleur, f))

DeleteRequest ==
    /\ Ready
    /\ \E actor \in Actors, ctx \in Contexts, uid \in Users, f \in LoadFaults :
        /\ Cardinality(views) < MaxViews
        /\ Do("delete_request", uid, actor, NoArgs, f,
              delete_profile_request(actor, ctx, uid, f))

DeleteOldRequest ==
    /\ Ready
    /\ \E actor \in GuildActors, uid \in Users, f \in LoadFaults :
        /\ Cardinality(views) < MaxViews
        /\ Do("delete_old_request", uid, actor, NoArgs, f,
              delete_profile_old_request(actor, uid, f))

ResetRequest ==
    /\ Ready
    /\ \E actor \in Actors, ctx \in Contexts, uid \in Users, f \in LoadFaults :
        /\ Cardinality(views) < MaxViews
        /\ Do("reset_request", uid, actor, NoArgs, f,
              reset_player_request(actor, ctx, uid, f))

Confirm ==
    /\ Ready
    /\ \E view \in views, presser \in Actors, f \in ConfirmFaults :
        /\ can_press(view, presser)
        /\ Do("confirm", view.target, presser,
              [kind |-> view.kind, requester |-> view.actor,
               captured |-> view.profile], f,
              press(view, presser, f))

Dismiss ==
    /\ Ready
    /\ \E view \in views, how \in {"Cancelled", "Timeout"} :
        Do("dismiss", view.target, view.actor,
           [kind |-> view.kind, requester |-> view.actor], "none",
           dismiss(view, how))

Next ==
    \/ CreateOld
    \/ Create
    \/ AddOld
    \/ AddStat
    \/ GivePoints
    \/ AddPoints
    \/ SetStat
    \/ SetPhysical
    \/ SetPhysicalOld
    \/ Customize
    \/ CustomizeOld
    \/ SetColor
    \/ SetColorOld
    \/ DeleteRequest
    \/ DeleteOldRequest
    \/ ResetRequest
    \/ Confirm
    \/ Dismiss

Spec == Init /\ [][Next]_vars

-----------------------------------------------------------------------------
(* Properties of the point allocation (!add and /addstat) and of /create   *)
(* and !create, stated on the outcome of the most recent command.          *)

CreateOps == {"create_old", "create"}

\* the most recent command was an allocation on an existing profile that
\* named one of the 8 stats
Allocating ==
    /\ last.op \in AllocOps
    /\ last.before # None
    /\ last.args.stat \in StatSet

\* the profile the most recent command found, and the one stored after it
Before == last.before[1]

After == Stored(last.uid)[1]

\* the most recent command left the stored profile, the log and the views
\* exactly as they were
Untouched == ~last.changed /\ Stored(last.uid) = last.before

\* the largest legal allocation for the profile the command found
LegalMax ==
    Min(max_points_per_add,
        Min(Before.available_points,
            max_stat_value - Before.stats[last.args.stat]))

\* C1: a successful allocation raises exactly the targeted stat by points,
\* lowers available_points by exactly points and leaves the other 7 stats as
\* they were; and every points with 1 <= points <= min(batch limit, available
\* points, max_stat_value - old stat) is accepted.
C1_AllocateExact ==
    Allocating =>
        /\ last.result = "ok" =>
            /\ Stored(last.uid) # None
            /\ After.stats[last.args.stat]
                   - Before.stats[last.args.stat] = last.args.points
            /\ After.available_points
                   = Before.available_points - last.args.points
            /\ \A s \in StatSet \ {last.args.stat} :
                   After.stats[s] = Before.stats[s]
        /\ (1 <= last.args.points /\ last.args.points <= LegalMax)
               => last.result = "ok"

\* an allocation of 10 points went through on !add
C1_Witness ==
    /\ Allocating
    /\ last.op = "add_old"
    /\ last.result = "ok"
    /\ last.args.points = 10
    /\ After.stats[last.args.stat] = Before.stats[last.args.stat] + 10

\* C2: in every reachable state every stored profile has
\* available_points >= 0.
C2_PointsNeverNegative ==
    \A u \in DOMAIN db : from_dict(db[u]).available_points >= 0

\* a profile with no points left was asked for an allocation and refused it
C2_Witness ==
    /\ Allocating
    /\ last.result = "InsufficientPoints"
    /\ After.available_points = 0

\* C3: in every reachable state every stored profile has all 8 stat keys and
\* each stat value within [0, max_stat_value].
C3_StatsInRange ==
    \A u \in DOMAIN db :
        LET stats == from_dict(db[u]).stats
        IN /\ DOMAIN stats = StatSet
           /\ \A s \in StatSet : 0 <= stats[s] /\ stats[s] <= max_stat_value

\* an allocation took a stat to the ceiling itself
C3_Witness ==
    /\ Allocating
    /\ last.result = "ok"
    /\ After.stats[last.args.stat] = max_stat_value

\* C5: a create for a member who already has a stored profile answers
\* AlreadyExists, leaves that profile as it was and logs nothing.
C5_CreateTwice ==
    (last.op \in CreateOps /\ last.before # None) =>
        /\ last.result = "AlreadyExists"
        /\ Untouched

\* a member with a profile asked for another one
C5_Witness ==
    /\ last.op \in CreateOps
    /\ last.before # None
    /\ last.result = "AlreadyExists"
    /\ \E i \in DOMAIN logs : logs[i].action = "PROFILE_CREATED"

\* the stat values the specification gives a new profile of an archetype
Clamp(v, lo, hi) == Max(lo, Min(hi, v))

ExpectedStats(archetype) ==
    [s \in StatSet |->
        Clamp(base_stat_value
                + (IF archetype \in DOMAIN ARCHETYPES
                      /\ s \in DOMAIN ARCHETYPES[archetype]
                   THEN ARCHETYPES[archetype][s] ELSE 0),
              min_stat_value, max_stat_value)]

\* C6: a profile created with archetype A has, for every stat s, the value
\* clamp(base_stat_value + bonus_A(s), 0, max_stat_value); for Pivot the
\* total is 4020.
C6_CreatedStats ==
    (last.op \in CreateOps /\ last.before = None /\ Stored(last.uid) # None) =>
        /\ After.stats = ExpectedStats(After.archetype)
        /\ After.archetype = "Pivot" => get_total_stats(After) = 4020

\* C7: an allocation that passes the amount, batch and balance checks and
\* would take the stat over max_stat_value answers StatCeilingExceeded,
\* reports max_stat_value - old stat and changes nothing; with 50 points and
\* Vitesse 995, 10 points are refused reporting 5 and 5 points are accepted,
\* giving Vitesse 1000 and 45 points.
C7_StatCeiling ==
    Allocating =>
        /\ ( /\ 1 <= last.args.points
             /\ last.args.points <= max_points_per_add
             /\ last.args.points <= Before.available_points
             /\ Before.stats[last.args.stat] + last.args.points > max_stat_value )
           => /\ last.result = "StatCeilingExceeded"
              /\ last.report = max_stat_value - Before.stats[last.args.stat]
              /\ Untouched
        /\ ( /\ Before.available_points = 50
             /\ last.args.stat = "Vitesse"
             /\ Before.stats["Vitesse"] = 995 )
           => /\ last.args.points = 10 =>
                    last.result = "StatCeilingExceeded" /\ last.report = 5
              /\ last.args.points = 5 =>
                    /\ last.result = "ok"
                    /\ After.stats["Vitesse"] = 1000
                    /\ After.available_points = 45

\* with 50 points and Vitesse 995, /addstat refused 10 points reporting 5
C7_Witness ==
    /\ Allocating
    /\ last.op = "add_stat"
    /\ Before.available_points = 50
    /\ Before.stats["Vitesse"] = 995
    /\ last.args = [stat |-> "Vitesse", points |-> 10]
    /\ last.result = "StatCeilingExceeded"
    /\ last.report = 5

\* C8 as stated: an allocation of points > 0 with points > available_points
\* answers InsufficientPoints, whatever the points and the stat value, and
\* changes nothing.
C8_Original ==
    (Allocating /\ last.args.points > 0
                /\ last.args.points > Before.available_points) =>
        /\ last.result = "InsufficientPoints"
        /\ Untouched

\* C8: an allocation of points with 0 < points <= max_points_per_add and
\* points > available_points answers InsufficientPoints, whatever the stat
\* value, and changes nothing; above max_points_per_add, !add answers
\* ExceedsBatchLimit instead and /addstat still InsufficientPoints, and
\* nothing changes either.
C8_InsufficientPoints ==
    (Allocating /\ last.args.points > 0
                /\ last.args.points > Before.available_points) =>
        /\ Untouched
        /\ last.args.points <= max_points_per_add
               => last.result = "InsufficientPoints"
        /\ last.args.points > max_points_per_add
               => last.result = IF last.op = "add_old" THEN "ExceedsBatchLimit"
                                ELSE "InsufficientPoints"

\* !add refused 10 points on a profile that holds fewer, with Vitesse at 995
C8_Witness ==
    /\ Allocating
    /\ last.op = "add_old"
    /\ last.args.points = 10
    /\ Before.available_points < 10
    /\ Before.stats[last.args.stat] = 995
    /\ last.result = "InsufficientPoints"

\* C9: an allocation of more than max_points_per_add points answers
\* ExceedsBatchLimit and changes nothing, on !add and on /addstat; no
\* successful allocation raises a stat by more than max_points_per_add.
C9_BatchLimit ==
    Allocating =>
        /\ last.args.points > max_points_per_add
               => last.result = "ExceedsBatchLimit" /\ Untouched
        /\ last.result = "ok"
               => After.stats[last.args.stat] - Before.stats[last.args.stat]
                      <= max_points_per_add

\* C10: an allocation of points <= 0 (0 included) answers InvalidAmount and
\* changes neither the stat, available_points nor updated_at.
C10_InvalidAmount ==
    (Allocating /\ last.args.points <= 0) =>
        /\ last.result = "InvalidAmount"
        /\ Stored(last.uid) # None
        /\ After.stats = Before.stats
        /\ After.available_points = Before.available_points
        /\ After.updated_at = Before.updated_at
        /\ Untouched

\* /addstat was asked for 0 points, at a time later than the profile's last
\* update
C10_Witness ==
    /\ Allocating
    /\ last.op = "add_stat"
    /\ last.args.points = 0
    /\ last.result = "InvalidAmount"
    /\ now > Before.updated_at

-----------------------------------------------------------------------------
(* Handlers in flight together.  discord.py runs each command as a task on *)
(* one asyncio event loop: a task keeps the loop from the moment it is     *)
(* resumed until its next await, and the sqlite3 calls of DatabaseManager  *)
(* are synchronous.  A handler is a load part (get_profile, the checks,    *)
(* the change of the loaded object), a save part (save_profile and         *)
(* log_action) and the await of the reply.                                 *)

\* the handlers that await between get_profile and save_profile: in !create,
\* /create, !add, /addstat, !givepoints and /addpoints every await is a
\* send that follows the save or ends a refusing branch
AWAIT_BEFORE_SAVE == {"add_stat"}

NO_AWAIT_BEFORE_SAVE == {}

awaits_before_save_deferred(op) == op \in AWAIT_BEFORE_SAVE

awaits_before_save(op) == op \in NO_AWAIT_BEFORE_SAVE

ConcOps ==
    {"create_old", "create", "add_old", "add_stat", "give_points", "add_points"}

ConcPointsIn == {10, 150}

ConcGrantIn == {50}

\* the handler of a command, run on the store as it is now
Handle(op, uid, points) ==
    CASE op = "create_old" -> create_profile_old(uid, "none")
      [] op = "create" -> create_profile(uid, "guild", "none")
      [] op = "add_old" -> add_stat_points_old(uid, << "V","I","T" >>, points, "none")
      [] op = "add_stat" -> add_stat(uid, "Vitesse", points, "none")
      [] op = "give_points" -> give_points(3, uid, points, "none")
      [] op = "add_points" -> add_points(3, "guild", uid, points, "none")

ConcInputs(op) ==
    IF op \in {"create_old", "create"} THEN {0}
    ELSE IF op \in AllocOps THEN ConcPointsIn
    ELSE ConcGrantIn

\* A task is resumed for the first time: it loads the profile, runs the
\* checks and changes its own copy.  It keeps the loop unless the handler
\* awaits before the save.  Tasks are numbered in the order they start.
Load ==
    \E t \in TaskIds, op \in ConcOps, uid \in Users :
      \E points \in ConcInputs(op) :
        LET out == Handle(op, uid, points)
            writes == out.db # db
        IN /\ running = 0
           /\ tasks[t].pc = "idle"
           /\ \A u \in TaskIds : u < t => tasks[u].pc # "idle"
           /\ tasks' = [tasks EXCEPT ![t] =
                  [ pc |-> IF writes THEN "loaded" ELSE "replying",
                    op |-> op, uid |-> uid, points |-> points,
                    result |-> out.result,
                    write |-> IF writes THEN get_profile(out.db, uid, FALSE)
                              ELSE None,
                    row |-> IF out.logs # logs
                            THEN Some(out.logs[Len(out.logs)]) ELSE None ]]
           /\ running' = IF writes /\ ~awaits_before_save(op) THEN t ELSE 0
           /\ UNCHANGED <<db, logs, now, views, last, env>>

\* the task saves its copy and logs, then awaits the sending of its reply
Commit ==
    \E t \in TaskIds :
        /\ tasks[t].pc = "loaded"
        /\ running \in {0, t}
        /\ db' = save_profile(db, tasks[t].write[1], FALSE)[2]
        /\ logs' = IF tasks[t].row = None THEN logs
                   ELSE Append(logs, tasks[t].row[1])
        /\ now' = now + 1
        /\ tasks' = [tasks EXCEPT ![t].pc = "replying"]
        /\ running' = 0
        /\ UNCHANGED <<views, last, env>>

\* the reply has been sent and the task ends
Reply ==
    \E t \in TaskIds :
        /\ tasks[t].pc = "replying"
        /\ running = 0
        /\ tasks' = [tasks EXCEPT ![t].pc = "done"]
        /\ UNCHANGED <<db, logs, now, views, last, env, running>>

NextConc ==
    \/ Load
    \/ Commit
    \/ Reply

SpecConc == Init /\ [][NextConc]_vars

\* the tasks that have saved
Saved == { t \in TaskIds : tasks[t].pc \in {"replying", "done"}
                           /\ tasks[t].write # None }

\* what a saved task did to the balance of the profile
Delta(t) ==
    IF tasks[t].op = "create_old" THEN starting_points
    ELSE IF tasks[t].op = "create" THEN 0
    ELSE IF tasks[t].op \in AllocOps THEN 0 - tasks[t].points
    ELSE tasks[t].points

RECURSIVE SumDelta(_)
SumDelta(S) ==
    IF S = {} THEN 0
    ELSE LET t == CHOOSE x \in S : TRUE IN Delta(t) + SumDelta(S \ {t})

\* C4: no two handlers hold a loaded copy of a profile at the same time (so
\* two allocations never both read the same balance and both succeed when it
\* covers one of them), and after any interleaving of allocations and grants
\* the stored available_points is the starting grant plus the points granted
\* minus the points allocated, never below 0.
C4_AtomicReadModifyWrite ==
    /\ \A t \in TaskIds, u \in TaskIds :
           (t # u /\ tasks[t].pc = "loaded" /\ tasks[u].pc = "loaded")
               => tasks[t].uid # tasks[u].uid
    /\ \A uid \in Users :
           Stored(uid) # None =>
               /\ Stored(uid)[1].available_points
                      = SumDelta({ t \in Saved : tasks[t].uid = uid })
               /\ Stored(uid)[1].available_points >= 0

\* two /addstat of 150 points met a balance of 200: one went through, the
\* other was refused, and 50 points are left
C4_Witness ==
    \E t \in TaskIds, u \in TaskIds :
        /\ tasks[t].op = "add_stat" /\ tasks[t].points = 150
        /\ tasks[u].op = "add_stat" /\ tasks[u].points = 150
        /\ tasks[t].result = "ok" /\ tasks[t].pc = "done"
        /\ tasks[u].result = "InsufficientPoints" /\ tasks[u].pc = "done"
        /\ Stored(1)[1].available_points = 50

-----------------------------------------------------------------------------
(* Properties of the staff commands.                                       *)

GrantOps == {"give_points", "add_points"}

\* the row the most recent command appended to action_logs
LastRow == logs[Len(logs)]

\* the most recent command was a grant by a member the command accepts, on
\* an existing profile
Granting ==
    /\ last.op \in GrantOps
    /\ last.result # "PermissionDenied"
    /\ last.before # None

\* C11: a grant by a staff member of amount <= 0 answers InvalidAmount and
\* changes nothing; of amount > 0 it adds exactly amount to available_points,
\* leaves the 8 stats as they were and appends one row to action_logs that
\* carries the staff member's id; 100 points on a profile with 0 give 100.
C11_GrantPoints ==
    Granting =>
        /\ last.args.points <= 0 => last.result = "InvalidAmount" /\ Untouched
        /\ last.args.points > 0 =>
            /\ last.result = "ok"
            /\ Stored(last.uid) # None
            /\ After.available_points
                   = Before.available_points + last.args.points
            /\ After.stats = Before.stats
            /\ last.logged = 1
            /\ LastRow.user_id = last.uid
            /\ LastRow.action \in {"POINTS_GIVEN", "POINTS_ADDED"}
            /\ LastRow.admin_id = last.actor
        /\ (last.args.points = 100 /\ Before.available_points = 0)
               => After.available_points = 100

\* /addpoints gave 100 points to a profile that had none
C11_Witness ==
    /\ Granting
    /\ last.op = "add_points"
    /\ last.args.points = 100
    /\ Before.available_points = 0
    /\ After.available_points = 100
    /\ LastRow.admin_id = 3

\* C12: /setstat by a staff member with a value below 0 or above
\* max_stat_value answers OutOfRange and changes nothing; otherwise it sets
\* exactly that stat to the value, leaves available_points and the other 7
\* stats as they were and logs one STAT_CHANGED row with the old and the new
\* value.
C12_OverrideStat ==
    (last.op = "set_stat" /\ last.result # "PermissionDenied"
                          /\ last.before # None) =>
        /\ (last.args.points < 0 \/ last.args.points > max_stat_value)
               => last.result = "OutOfRange" /\ Untouched
        /\ (0 <= last.args.points /\ last.args.points <= max_stat_value) =>
            /\ last.result = "ok"
            /\ Stored(last.uid) # None
            /\ After.stats[last.args.stat] = last.args.points
            /\ \A s \in StatSet \ {last.args.stat} :
                   After.stats[s] = Before.stats[s]
            /\ After.available_points = Before.available_points
            /\ last.logged = 1
            /\ LastRow.action = "STAT_CHANGED"
            /\ LastRow.details = << last.args.stat,
                                    Before.stats[last.args.stat],
                                    last.args.points >>

\* /setstat took Vitesse from another value to 995 on a profile with points
C12_Witness ==
    /\ last.op = "set_stat"
    /\ last.result = "ok"
    /\ last.before # None
    /\ Before.stats["Vitesse"] # 995
    /\ Before.available_points > 0
    /\ After.stats["Vitesse"] = 995
    /\ LastRow.action = "STAT_CHANGED"

PhysicalOps == {"set_physical", "set_physical_old"}

\* C13: a physical override by a staff member answers NoChangeRequested,
\* saving and logging nothing, unless height or weight is given and positive;
\* when it succeeds it updates only the positive fields given and leaves the
\* other physical field, the stats and available_points as they were.
C13_OverridePhysical ==
    (last.op \in PhysicalOps /\ last.result # "PermissionDenied"
                             /\ last.before # None) =>
        /\ (last.args.height <= 0 /\ last.args.weight <= 0)
               => last.result = "NoChangeRequested" /\ Untouched
        /\ (last.args.height > 0 \/ last.args.weight > 0) =>
            /\ last.result = "ok"
            /\ Stored(last.uid) # None
            /\ After.height = IF last.args.height > 0 THEN last.args.height
                              ELSE Before.height
            /\ After.weight = IF last.args.weight > 0 THEN last.args.weight
                              ELSE Before.weight
            /\ After.stats = Before.stats
            /\ After.available_points = Before.available_points

\* the most recent command was the Confirmer button of a /resetplayer view
\* whose profile is stored
ResetConfirmed ==
    /\ last.op = "confirm"
    /\ last.args.kind = "reset"
    /\ last.before # None
    /\ Stored(last.uid) # None

\* the sum of the stat values the specification gives a profile of an archetype
ExpectedTotal(archetype) ==
    SumSeq([i \in DOMAIN STAT_NAMES |-> ExpectedStats(archetype)[STAT_NAMES[i]]])

\* C14: after a confirmed reset, whatever was allocated, granted or overridden
\* before, every stat is clamp(base_stat_value + bonus of the profile's
\* archetype, 0, max_stat_value), the total is the sum of these, and
\* available_points is 0.
C14_ResetValues ==
    ResetConfirmed =>
        /\ After.stats = ExpectedStats(After.archetype)
        /\ get_total_stats(After) = ExpectedTotal(After.archetype)
        /\ After.available_points = 0

\* the fields a reset is to keep
Kept(profile) ==
    << profile.user_id, profile.username, profile.archetype,
       profile.character_name, profile.first_name, profile.age,
       profile.height, profile.weight, profile.profile_image,
       profile.embed_color, profile.created_at >>

RequestOps == {"delete_request", "delete_old_request", "reset_request"}

DestructiveRows == {"PROFILE_DELETED", "PLAYER_RESET"}

\* C16: a delete or a reset reaches the store only through the confirmation
\* given by the member who asked for it while the view waits; the request
\* itself, a declined request and a request that timed out save nothing,
\* delete nothing and log nothing, and leave the profile as it was.
C16_ConfirmationFirst ==
    /\ last.op \in RequestOps \cup {"dismiss"} =>
           /\ Stored(last.uid) = last.before
           /\ last.logged = 0
    /\ (last.op = "confirm" /\ last.actor # last.args.requester) => Untouched
    /\ ( \/ (last.before # None /\ Stored(last.uid) = None)
         \/ (last.logged > 0 /\ LastRow.action \in DestructiveRows) )
           => /\ last.op = "confirm"
              /\ last.actor = last.args.requester
              /\ last.result = "ok"

\* the staff member who asked for a deletion let the 30 seconds run out and
\* the profile is still stored
C16_Witness ==
    /\ last.op = "dismiss"
    /\ last.result = "Timeout"
    /\ last.args.kind \in {"delete", "delete_old"}
    /\ last.before # None
    /\ Stored(last.uid) = last.before

DeleteRequestOps == {"delete_request", "delete_old_request"}

DeleteKinds == {"delete", "delete_old"}

\* the most recent command was the confirmation of a deletion by the member
\* who asked for it
DeleteConfirmed ==
    /\ last.op = "confirm"
    /\ last.args.kind \in DeleteKinds
    /\ last.actor = last.args.requester

\* C17: a deletion asked for a member without a stored profile is answered
\* NotFound, and one confirmed after the profile has gone is answered with an
\* error, never as a success; neither logs PROFILE_DELETED;
\* DatabaseManager.delete_profile returns False for a user_id that has no
\* row; a confirmed deletion of a stored profile removes it, so that
\* get_profile returns None afterwards.
C17_DeleteMissing ==
    /\ (last.op \in DeleteRequestOps /\ last.result # "PermissionDenied"
                                     /\ last.before = None)
           => last.result = "NotFound" /\ ~last.changed
    /\ (DeleteConfirmed /\ last.before = None)
           => last.result = "DeleteFailed" /\ last.logged = 0
    /\ (DeleteConfirmed /\ last.before # None)
           => /\ last.result = "ok"
              /\ get_profile(db, last.uid, FALSE) = None
              /\ last.logged = 1
              /\ LastRow.action = "PROFILE_DELETED"
    /\ \A uid \in Users :
           uid \notin DOMAIN db => ~delete_profile(db, uid, FALSE)[1]

\* a profile was deleted and a staff member asked to delete it once more
C17_Witness ==
    /\ last.op \in DeleteRequestOps
    /\ last.before = None
    /\ last.result = "NotFound"
    /\ \E i \in DOMAIN logs : logs[i].action = "PROFILE_DELETED"

PrivilegedOps ==
    { "give_points", "add_points", "set_stat", "set_physical",
      "set_physical_old", "delete_request", "delete_old_request",
      "reset_request" }

\* the member owns the guild, holds the administrator or manage_guild
\* permission, or has a role named in ADMIN_ROLES
Privileged(member) ==
    \/ member.owner
    \/ member.administrator \/ member.manage_guild
    \/ RoleSet(member) \cap ADMIN_ROLES # {}

\* C18: a staff command is refused with PermissionDenied exactly when the
\* member issuing it is neither the owner of the guild, nor holder of an
\* administrative permission, nor holder of a role of ADMIN_ROLES, whichever
\* the entry point; a refused command leaves the profile and the log alone.
C18_Authorized ==
    last.op \in PrivilegedOps
        => /\ (last.result = "PermissionDenied")
                  <=> ~Privileged(Members[last.actor])
           /\ ~Privileged(Members[last.actor])
                  => Untouched /\ last.logged = 0

-----------------------------------------------------------------------------
(* The same commands with a database whose calls can raise: every method   *)
(* of DatabaseManager catches the exception, prints it and returns its     *)
(* failure value.                                                          *)

InitFault ==
    /\ db = << >>
    /\ logs = << >>
    /\ now = 0
    /\ views = {}
    /\ env = "faulty"
    /\ last = [ op |-> "none", uid |-> 0, actor |-> 0, args |-> NoArgs,
                fault |-> "none", result |-> "none", report |-> 0,
                changed |-> TRUE, before |-> None, logged |-> 0,
                run |-> NoRun ]
    /\ tasks = [t \in TaskIds |-> IdleTask]
    /\ running = 0

SpecFault == InitFault /\ [][Next]_vars

\* the action name each command logs
ACTION_KIND ==
    [ create_old |-> "PROFILE_CREATED", create |-> "PROFILE_CREATED",
      add_old |-> "POINTS_ADDED", add_stat |-> "STAT_ADDED",
      give_points |-> "POINTS_GIVEN", add_points |-> "POINTS_ADDED",
      set_stat |-> "STAT_CHANGED", set_physical |-> "PHYSICAL_UPDATED",
      set_physical_old |-> "PHYSICAL_STATS_SET",
      customize |-> "PROFILE_CUSTOMIZED",
      customize_old |-> "PROFILE_CUSTOMIZED",
      set_color |-> "COLOR_CHANGED", color_old |-> "COLOR_CHANGED" ]

\* the action name of the row the most recent command has to log
ExpectedAction ==
    IF last.op = "confirm"
    THEN IF last.args.kind = "reset" THEN "PLAYER_RESET" ELSE "PROFILE_DELETED"
    ELSE ACTION_KIND[last.op]

\* the most recent command wrote the profile table
Persisted ==
    /\ last.op \in DOMAIN ACTION_KIND \cup {"confirm"}
    /\ Stored(last.uid) # last.before

\* C19: a command that has written the profile table has also appended the
\* row of its action for that member, whether or not a database call raised.
\* The handlers call log_action before they answer and no later command
\* appends the row of an earlier one (at most one row per command, for its
\* own write), so a row missing when the command ends is never appended.
C19_AuditFollows ==
    /\ last.logged <= 1
    /\ last.logged = 1 => Persisted
    /\ Persisted
           => /\ last.logged = 1
              /\ LastRow.user_id = last.uid
              /\ LastRow.action = ExpectedAction

-----------------------------------------------------------------------------
(* Claims about sequences of commands, name resolution, timestamps, the    *)
(* leaderboard, persistence and error answers.                             *)

\* C21: after any number of allocations in a row on one profile, the total
\* of its stats is the total the first of them found plus the points of the
\* allocations that answered ok, its balance is the balance the first found
\* minus those points, and so total + balance is what it was; an allocation
\* that failed adds nothing to either.
C21_AllocateSequence ==
    (last.op \in AllocOps /\ last.run.calls > 0 /\ Stored(last.uid) # None)
        => /\ get_total_stats(After) = last.run.total + last.run.spent
           /\ After.available_points = last.run.points - last.run.spent
           /\ get_total_stats(After) + After.available_points
                  = last.run.total + last.run.points

\* three allocations in a row: 5 and 10 points went through, the third failed
C21_Witness ==
    /\ last.op \in AllocOps
    /\ last.run.calls = 3
    /\ last.run.spent = 15
    /\ last.result # "ok"

-----------------------------------------------------------------------------
(* validate_stat_name on its own: the tokens are every slice of the 8      *)
(* names and the 8 abbreviations, as written, in lower and in upper case,  *)
(* the empty token and tokens that are part of no name.                    *)

Slices(text) ==
    { SubSeq(text, i, j) : i \in 1..Len(text), j \in 1..Len(text) }

Cased(tokens) ==
    tokens \cup { lower(t) : t \in tokens } \cup { upper(t) : t \in tokens }

Tokens ==
    Cased(UNION { Slices(STAT_CHARS[n]) : n \in StatSet })
        \cup Cased({ STAT_ABBREVIATIONS[n] : n \in StatSet })
        \cup { << "x","y","z" >>, << "V","I","T","E","S" >>, << "F","O" >>,
               << "D","E" >>, << "e","n","d","u","r","e" >> }

InitResolve ==
    /\ db = << >>
    /\ logs = << >>
    /\ now = 0
    /\ views = {}
    /\ env = "resolve"
    /\ last = [ op |-> "none", uid |-> 0, actor |-> 0,
                args |-> [stat |-> "", token |-> << >>],
                fault |-> "none", result |-> "none", report |-> 0,
                changed |-> FALSE, before |-> None, logged |-> 0,
                run |-> NoRun ]
    /\ tasks = [t \in TaskIds |-> IdleTask]
    /\ running = 0

\* one call of validate_stat_name on a token; what it returned is kept in
\* last, and the function keeps no state from one call to the next
Resolve ==
    /\ last.op = "none"
    /\ \E stat_name \in Tokens :
        LET validated == validate_stat_name(stat_name)
        IN last' = [ last EXCEPT
                       !.op = "resolve",
                       !.args = [ stat |-> IF validated = None THEN ""
                                           ELSE validated[1],
                                  token |-> stat_name ],
                       !.result = IF validated = None THEN "InvalidStat"
                                  ELSE "ok" ]
    /\ UNCHANGED <<db, logs, now, views, env, tasks, running>>

SpecResolve == InitResolve /\ [][Resolve]_vars

\* the stats each of the three rules finds for a token
ByName(token) ==
    { n \in StatSet : lower(STAT_CHARS[n]) = lower(token) }

ByAbbreviation(token) ==
    { n \in StatSet : upper(token) = STAT_ABBREVIATIONS[n] }

BySubstring(token) ==
    { n \in StatSet : IsSubstring(lower(token), lower(STAT_CHARS[n])) }

\* the position of a stat in the declaration order
Rank(n) == CHOOSE i \in DOMAIN STAT_NAMES : STAT_NAMES[i] = n

Earliest(found) == CHOOSE n \in found : \A m \in found : Rank(n) <= Rank(m)

\* C22: the stat a token resolves to is the one the first matching rule
\* gives, name before abbreviation before substring, the earliest declared
\* stat among several; a full name, its abbreviation and a token that is
\* part of that name only resolve to that stat; a token no rule matches
\* is answered InvalidStat.
C22_Resolution ==
    last.op = "resolve"
        => LET token == last.args.token
               stat == last.args.stat
           IN /\ ByName(token) # {} => stat = Earliest(ByName(token))
              /\ (ByName(token) = {} /\ ByAbbreviation(token) # {})
                     => stat = Earliest(ByAbbreviation(token))
              /\ (ByName(token) = {} /\ ByAbbreviation(token) = {}
                                     /\ BySubstring(token) # {})
                     => stat = Earliest(BySubstring(token))
              /\ (ByName(token) = {} /\ ByAbbreviation(token) = {}
                                     /\ BySubstring(token) = {})
                     <=> last.result = "InvalidStat"
              /\ \A n \in StatSet :
                     (\/ token = STAT_CHARS[n]
                      \/ token = STAT_ABBREVIATIONS[n]
                      \/ BySubstring(token) = {n})
                         => last.result = "ok" /\ stat = n

\* an abbreviation that is part of no name was resolved by the second rule
C22_Witness ==
    /\ last.op = "resolve"
    /\ last.args.token = << "D","E","T" >>
    /\ BySubstring(last.args.token) = {}
    /\ last.args.stat = "Détente"

\* the commands that change an existing profile
UpdateOps ==
    AllocOps \cup GrantOps
        \cup { "set_stat", "set_physical", "set_physical_old", "customize",
               "customize_old", "set_color", "color_old", "confirm" }

\* the most recent command changed a stored profile and left it stored
Updated ==
    /\ last.op \in UpdateOps
    /\ last.result = "ok"
    /\ last.before # None
    /\ Stored(last.uid) # None

\* C23: a command that has changed a profile leaves the time it ran in the
\* stored updated_at, which is later than the updated_at it found, whichever
\* the command and the entry point.
C23_UpdatedAtRefreshed ==
    Updated => /\ After.updated_at = now - 1
               /\ After.updated_at > Before.updated_at

\* the stats a command other than a creation is to leave: those it found,
\* with the one stat an allocation or /setstat names changed as asked
StatsAsked ==
    IF last.result # "ok" THEN Before.stats
    ELSE IF last.op \in AllocOps
         THEN [Before.stats EXCEPT ![last.args.stat] = @ + last.args.points]
    ELSE IF last.op = "set_stat"
         THEN [Before.stats EXCEPT ![last.args.stat] = last.args.points]
    ELSE Before.stats

\* C24: a created profile has the stats of one application of its
\* archetype's bonuses to the base stats; no later command applies them
\* again: it leaves the stats as it found them but for the stat it was asked
\* to change; and writing a stored profile back and reading it again, once or
\* twice, gives the same stats.
C24_BonusOnce ==
    /\ (last.op \in CreateOps /\ last.before = None /\ Stored(last.uid) # None)
           => After.stats
                  = apply_archetype_bonus(
                        PlayerProfile(After.user_id, After.username,
                                      After.archetype), ARCHETYPES).stats
    /\ (last.op \notin CreateOps /\ last.before # None
                                 /\ Stored(last.uid) # None)
           => After.stats = StatsAsked
    /\ \A uid \in DOMAIN db :
           LET once == from_dict(to_dict(from_dict(db[uid])))
               twice == from_dict(to_dict(once))
           IN /\ once.stats = from_dict(db[uid]).stats
              /\ twice.stats = from_dict(db[uid]).stats

-----------------------------------------------------------------------------
(* The leaderboard: get_all_profiles, list.sort(key, reverse=True) and the *)
(* slice the embed shows, on tables of up to MaxProfiles profiles.         *)

\* the profiles of the largest table explored
MaxProfiles == 11

\* the entries an embed lists, profiles[:10]
leaderboard_limit == 10

\* the place of a character in the byte order of the names used here
char_code(c) == CHOOSE i \in DOMAIN UPPERS : UPPERS[i] = c

\* the comparison of ORDER BY username
RECURSIVE text_less(_, _)
text_less(a, b) ==
    IF a = << >> THEN b # << >>
    ELSE IF b = << >> THEN FALSE
    ELSE IF Head(a) = Head(b) THEN text_less(Tail(a), Tail(b))
    ELSE char_code(Head(a)) < char_code(Head(b))

RECURSIVE order_by_username(_, _)
order_by_username(table, ids) ==
    IF ids = {} THEN << >>
    ELSE LET first == CHOOSE u \in ids :
                          \A v \in ids \ {u} :
                              text_less(table[u].username, table[v].username)
         IN << from_dict(table[first]) >>
                \o order_by_username(table, ids \ {first})

\* DatabaseManager.get_all_profiles
get_all_profiles(table, raises) ==
    IF raises THEN << >> ELSE order_by_username(table, DOMAIN table)

\* the key of a sort: the stat named, or the total when none is named
sort_key(profile, statistique) ==
    IF statistique = "" THEN get_total_stats(profile)
    ELSE profile.stats[statistique]

Front(q) == SubSeq(q, 1, Len(q) - 1)

\* a sort that puts a profile before those of the same key that precede it
RECURSIVE insert_before_equal(_, _, _)
insert_before_equal(profile, sorted, statistique) ==
    IF sorted = << >> THEN << profile >>
    ELSE IF sort_key(Head(sorted), statistique) > sort_key(profile, statistique)
         THEN << Head(sorted) >>
                  \o insert_before_equal(profile, Tail(sorted), statistique)
    ELSE << profile >> \o sorted

RECURSIVE sort_reverse_unstable(_, _)
sort_reverse_unstable(profiles, statistique) ==
    IF profiles = << >> THEN << >>
    ELSE insert_before_equal(profiles[Len(profiles)],
                             sort_reverse_unstable(Front(profiles), statistique),
                             statistique)

\* the place list.sort gives an element among those sorted before it: behind
\* every element whose key is not smaller
RECURSIVE insert_after_equal(_, _, _)
insert_after_equal(profile, sorted, statistique) ==
    IF sorted = << >> THEN << profile >>
    ELSE IF sort_key(Head(sorted), statistique) >= sort_key(profile, statistique)
         THEN << Head(sorted) >>
                  \o insert_after_equal(profile, Tail(sorted), statistique)
    ELSE << profile >> \o sorted

\* profiles.sort(key=..., reverse=True)
RECURSIVE sort_reverse(_, _)
sort_reverse(profiles, statistique) ==
    IF profiles = << >> THEN << >>
    ELSE insert_after_equal(profiles[Len(profiles)],
                            sort_reverse(Front(profiles), statistique),
                            statistique)

Ids(profiles) == [i \in DOMAIN profiles |-> profiles[i].user_id]

\* what a leaderboard command leaves in last: the ids as loaded and as listed
Listing(op, statistique, loaded, listed, result) ==
    [ last EXCEPT !.op = op,
                  !.args = [ stat |-> statistique, loaded |-> Ids(loaded),
                             listed |-> Ids(listed) ],
                  !.result = result ]

\* BasketballCommands.leaderboard (/leaderboard)
leaderboard(statistique, f) ==
    LET profiles == get_all_profiles(db, f = "load")
        sorted == sort_reverse(profiles, statistique)
    IN IF profiles = << >>
       THEN Listing("leaderboard", statistique, profiles, << >>, "NoProfiles")
       ELSE Listing("leaderboard", statistique, profiles,
                    SubSeq(sorted, 1, Min(leaderboard_limit, Len(sorted))), "ok")

\* commands_old.show_leaderboard (!leaderboard)
show_leaderboard(stat, f) ==
    LET profiles == get_all_profiles(db, f = "load")
        validated_stat == validate_stat_name(stat)
        statistique == IF stat = << >> THEN "" ELSE validated_stat[1]
        sorted == sort_reverse(profiles, statistique)
    IN IF profiles = << >>
       THEN Listing("show_leaderboard", "", profiles, << >>, "NoProfiles")
       ELSE IF stat # << >> /\ validated_stat = None
            THEN Listing("show_leaderboard", "", profiles, << >>, "InvalidStat")
       ELSE Listing("show_leaderboard", statistique, profiles,
                    SubSeq(sorted, 1, Min(leaderboard_limit, Len(sorted))), "ok")

\* the member u of a table of the exploration: the names run against the ids
RankedName(u) == << UPPERS[Len(UPPERS) - u] >>

RankedTable(vitesse) ==
    [ u \in DOMAIN vitesse |->
        to_dict([ PlayerProfile(u, RankedName(u), "Généraliste")
                  EXCEPT !.stats["Vitesse"] = vitesse[u] ]) ]

VitesseIn == {500, 510}

LeaderboardIn == {"", "Vitesse", "Endurance"}

LeaderboardTokens == { << >>, << "V","I","T" >>, << "x","y","z" >> }

InitRank ==
    /\ now = 0
    /\ db \in { RankedTable(vitesse) :
                  vitesse \in UNION { [1..n -> VitesseIn] : n \in 0..MaxProfiles } }
    /\ logs = << >>
    /\ views = {}
    /\ env = "rank"
    /\ last = [ op |-> "none", uid |-> 0, actor |-> 0,
                args |-> [stat |-> "", loaded |-> << >>, listed |-> << >>],
                fault |-> "none", result |-> "none", report |-> 0,
                changed |-> FALSE, before |-> None, logged |-> 0,
                run |-> NoRun ]
    /\ tasks = [t \in TaskIds |-> IdleTask]
    /\ running = 0

Leaderboard ==
    /\ last.op = "none"
    /\ \E statistique \in LeaderboardIn, f \in Faults :
        last' = leaderboard(statistique, f)
    /\ UNCHANGED <<db, logs, now, views, env, tasks, running>>

ShowLeaderboard ==
    /\ last.op = "none"
    /\ \E stat \in LeaderboardTokens, f \in Faults :
        last' = show_leaderboard(stat, f)
    /\ UNCHANGED <<db, logs, now, views, env, tasks, running>>

NextRank ==
    \/ Leaderboard
    \/ ShowLeaderboard

SpecRank == InitRank /\ [][NextRank]_vars

RankOps == {"leaderboard", "show_leaderboard"}

\* the key the most recent leaderboard ranked the profile of u by
KeyOf(u) == sort_key(from_dict(db[u]), last.args.stat)

\* the place of u in a sequence of ids
PlaceIn(ids, u) == CHOOSE i \in DOMAIN ids : ids[i] = u

Listed == last.args.listed

Loaded == last.args.loaded

\* the listing is in non-increasing order of the key, and profiles of equal
\* key are in the order in which they were loaded
RankedAndStable ==
    \A i, j \in DOMAIN Listed :
        i < j => /\ KeyOf(Listed[i]) >= KeyOf(Listed[j])
                 /\ KeyOf(Listed[i]) = KeyOf(Listed[j])
                        => PlaceIn(Loaded, Listed[i]) < PlaceIn(Loaded, Listed[j])

\* the profiles are loaded in ascending order of username, each once
LoadedByUsername ==
    /\ { Loaded[i] : i \in DOMAIN Loaded } = DOMAIN db
    /\ Len(Loaded) = Cardinality(DOMAIN db)
    /\ \A i, j \in DOMAIN Loaded :
           i < j => text_less(db[Loaded[i]].username, db[Loaded[j]].username)

\* C25 as stated: the listing is ranked, stable and a permutation of the
\* profiles loaded
C25_Original ==
    (last.op \in RankOps /\ last.result = "ok")
        => /\ LoadedByUsername
           /\ RankedAndStable
           /\ Len(Listed) = Len(Loaded)
           /\ { Listed[i] : i \in DOMAIN Listed }
                  = { Loaded[i] : i \in DOMAIN Loaded }

\* C25: the leaderboard lists the profiles in non-increasing order of the
\* key (the total, or the stat named), profiles of equal key in the order in
\* which the store returned them (ascending username); it lists every loaded
\* profile once when there are at most 10, and otherwise the first 10 of
\* that ranking: no profile left out has a larger key than one listed, nor
\* an equal key and an earlier place in the store's order.
C25_Leaderboard ==
    (last.op \in RankOps /\ last.result = "ok")
        => /\ LoadedByUsername
           /\ RankedAndStable
           /\ Len(Listed) = Min(leaderboard_limit, Len(Loaded))
           /\ \A i, j \in DOMAIN Listed : i # j => Listed[i] # Listed[j]
           /\ \A i \in DOMAIN Listed : Listed[i] \in DOMAIN db
           /\ \A u \in DOMAIN db :
                  u \notin { Listed[i] : i \in DOMAIN Listed }
                      => \A i \in DOMAIN Listed :
                             \/ KeyOf(Listed[i]) > KeyOf(u)
                             \/ /\ KeyOf(Listed[i]) = KeyOf(u)
                                /\ PlaceIn(Loaded, Listed[i]) < PlaceIn(Loaded, u)

\* 11 profiles, ranked by Vitesse with ties among those listed, and one with
\* the larger key loaded last and listed first
C25_Witness ==
    /\ last.op \in RankOps
    /\ last.result = "ok"
    /\ last.args.stat = "Vitesse"
    /\ Len(Loaded) = 11
    /\ Len(Listed) = 10
    /\ Listed[1] = Loaded[11]
    /\ KeyOf(Listed[2]) = KeyOf(Listed[3])
    /\ KeyOf(Listed[1]) > KeyOf(Listed[10])

\* the most recent command was the confirmation of a reset whose target had
\* been changed or deleted since the reset was asked for
ResetAfterChange ==
    /\ last.op = "confirm"
    /\ last.args.kind = "reset"
    /\ last.args.captured # last.before

ErrorOutcomes ==
    { "AlreadyExists", "NotFound", "InvalidStat", "InvalidAmount",
      "ExceedsBatchLimit", "InsufficientPoints", "StatCeilingExceeded",
      "OutOfRange", "NoChangeRequested", "PersistenceFailure",
      "PermissionDenied", "NoArchetype", "InvalidAge", "InvalidField",
      "UnknownColor", "Usage", "Error", "DeleteFailed", "InternalError",
      "Unhandled" }

\* C27: a command that answered with an error has left the stored profile
\* of its target and the log as they were; a creation that answered with an
\* error has stored no profile.
C27_ErrorLeavesState ==
    last.result \in ErrorOutcomes
        => /\ Stored(last.uid) = last.before
           /\ last.logged = 0
           /\ last.op \in CreateOps /\ last.before = None
                  => Stored(last.uid) = None

\* C28: a creation never replaces a stored profile, whether or not the
\* look-up of the existing profile raised: the profile stored after it is
\* the one stored before it, and the command is not answered as a success.
C28_LoadFaultNotAbsence ==
    (last.op \in CreateOps /\ last.before # None)
        => /\ Stored(last.uid) = last.before
           /\ last.fault = "load" => last.result \notin {"ok", "InternalError"}

\* profiles to write in a state: each stored profile as it is and with every
\* kind of field changed, and the fresh profile of a member without one
\* (the member the commands act on, and one beside them)
SaveCandidates ==
    UNION { LET q == from_dict(db[u])
            IN { q,
                 [ q EXCEPT !.username = << "É","l","o" >>,
                            !.archetype = "Ailier Fort",
                            !.stats["Précision"] = max_stat_value,
                            !.stats["Vitesse"] = min_stat_value,
                            !.available_points = 7,
                            !.character_name = << "J","o" >>,
                            !.first_name = << "é" >>,
                            !.age = 17, !.height = 180, !.weight = 75,
                            !.profile_image = << "h","t","t","p" >>,
                            !.embed_color = 0,
                            !.updated_at = now ] } : u \in DOMAIN db }
        \cup { PlayerProfile(u, Members[u].display_name, "Généraliste") :
                   u \in (Users \cup {2}) \ DOMAIN db }

SavingOps == CreateOps \cup (UpdateOps \ {"confirm"})

\* C30: a saving command in which save_profile returned False answers with
\* an error, leaves the stored profile of its target as it was and appends
\* no row to the log; and PersistenceFailure is only answered after a failed
\* save, with the profile and the log as they were.
C30_SaveFailure ==
    /\ (last.op \in SavingOps /\ last.fault = "save")
           => /\ last.result \in ErrorOutcomes
              /\ Stored(last.uid) = last.before
              /\ last.logged = 0
    /\ last.result = "PersistenceFailure"
           => /\ last.fault = "save"
              /\ Stored(last.uid) = last.before
              /\ last.logged = 0

\* a grant that passed every check and whose save failed
C30_Witness ==
    /\ last.op = "add_points"
    /\ last.fault = "save"
    /\ last.before # None
    /\ last.args.points > 0
    /\ last.result = "PersistenceFailure"

====
